---- MODULE Spec2Model ----
(***************************************************************************)
(* Section cache of Jornal Crucial (src/app_min.py): the snapshot file,    *)
(* its two locks, and the threads that read and rebuild it.                *)
(*                                                                         *)
(* Threads: every HTTP request has a serving thread, which runs            *)
(* get_buckets_cached (a page) or the /refresh route, and owns one         *)
(* background thread slot (the threading.Thread a page request may start). *)
(* Time is a clock in whole seconds.                                       *)
(*                                                                         *)
(* Feed fetcher of src/jornal2.py: carregar_feed and its per-URL cache.    *)
(* The functions that only compute (the collector, the economy filter,     *)
(* get_section_cached on a given snapshot) are operators, applied to one   *)
(* call at a time.                                                         *)
(***************************************************************************)
EXTENDS Integers, Sequences, FiniteSets, TLC

\* ---------------------------------------------------------------- bounds
MaxReq == 2        \* concurrent HTTP requests (pages and /refresh calls)
MaxTicks == 1      \* clock advances, of one second each
MaxFeedTicks == 2  \* advances of the feed fetcher's clock
MaxGets == 2       \* network requests before the last cache miss
MaxEntries == 3    \* raw entries in the feeds of one topic, all feeds together
MaxBucket == 2     \* entries in one bucket of a snapshot read by a section
MaxWords == 2      \* words in the title of an entry put to the economy filter
MaxPieces == 3     \* pieces in a text put to strip_html or to summarize

\* ------------------------------------------------------ program constants
CACHE_TTL == 300
UnknownAge == 1000000000   \* the 1e18 "unknown age" of the source, within TLC's integers

ReqIds == 1..MaxReq
Bg(r) == 10 + r
BgIds == {Bg(r) : r \in ReqIds}
Procs == ReqIds \cup BgIds
NoThread == 0

TEMAS == <<"Esporte", "Cultura", "Politica Brasil", "Economia", "Ultimas">>
TemaSet == {TEMAS[i] : i \in 1..Len(TEMAS)}

\* ------------------------------------------------------------ timestamps
\* An updated_at value: JSON null, or an ISO-8601 text kept as its seconds
\* and the sequence of suffix tokens that follow them.
None == [null |-> TRUE, secs |-> 0, tail |-> <<>>]
Stamp(t, tl) == [null |-> FALSE, secs |-> t, tail |-> tl]

\* isoformat(timespec="seconds") of an aware UTC datetime ends in "+00:00";
\* the code then appends "Z".
_now_iso(t) == Stamp(t, <<"+00:00", "Z">>)

EndsWithZ(s) == Len(s.tail) > 0 /\ s.tail[Len(s.tail)] = "Z"
ReplaceZ(s) == Stamp(s.secs, Append(SubSeq(s.tail, 1, Len(s.tail) - 1), "+00:00"))

\* datetime.fromisoformat accepts the seconds alone (a naive datetime) or
\* followed by exactly one UTC offset (an aware one); an aware "now" minus a
\* naive datetime raises TypeError.  Every exception yields the unknown age.
_cache_age_seconds(updated_at, clock) ==
    IF updated_at.null THEN UnknownAge
    ELSE LET u == IF EndsWithZ(updated_at) THEN ReplaceZ(updated_at) ELSE updated_at
         IN  IF u.tail = <<"+00:00">> THEN clock - u.secs ELSE UnknownAge

\* -------------------------------------------------------------- snapshots
EmptyDict == [t \in {} |-> <<>>]
EmptySnapshot == [updated_at |-> None, buckets |-> EmptyDict]
Pair(d) == [buckets |-> d.buckets, updated_at |-> d.updated_at]

\* One bucket per configured topic; feeds that all fail or are empty yield
\* empty lists, otherwise a bucket holds entries ("e" stands for them).
BuildBuckets(g) == [t \in TemaSet |-> IF g THEN <<"e">> ELSE <<>>]
_build_cache_from_feeds(g, clock) == [updated_at |-> _now_iso(clock), buckets |-> BuildBuckets(g)]

MissingFile == [kind |-> "missing", data |-> EmptySnapshot]
CorruptFile == [kind |-> "corrupt", data |-> EmptySnapshot]
PartialFile(d) == [kind |-> "partial", data |-> d]
JsonFile(d) == [kind |-> "json", data |-> d]

\* A snapshot put on disk before the process starts, stamped at second 0 with
\* the plain "Z" designator; the process starts when it is CACHE_TTL seconds old.
StartClock == CACHE_TTL
SeedSnapshot == [updated_at |-> Stamp(0, <<"Z">>), buckets |-> BuildBuckets(TRUE)]

\* Variant: the json.load is not guarded, so an unparsable file raises.
_read_cache_file_unguarded(f) ==
    IF f.kind = "json" THEN [raised |-> FALSE, data |-> f.data]
    ELSE [raised |-> f.kind # "missing", data |-> EmptySnapshot]

\* _read_cache_file: a missing file and a file json.load cannot parse both
\* give the empty snapshot; nothing is raised.
_read_cache_file(f) ==
    IF f.kind = "json" THEN [raised |-> FALSE, data |-> f.data]
    ELSE [raised |-> FALSE, data |-> EmptySnapshot]

\* Variant: a snapshot whose buckets are all empty lists counts as cold too.
IsColdWhenAllEmpty(p) ==
    p.updated_at.null \/ \A t \in DOMAIN p.buckets : p.buckets[t] = <<>>

\* if not updated_at or not buckets: a dict with keys is true in Python, also
\* when every list in it is empty.
IsCold(p) == p.updated_at.null \/ DOMAIN p.buckets = {}

VARIABLES pc, route, first, snap, ret, rep, file, tmp, cacheLock, refreshLock, refreshing, now

\* The feed fetcher: _FEED_CACHE, its clock, the HTTP requests issued so far
\* per URL, and the callers of carregar_feed (position, url, returned value).
VARIABLES _FEED_CACHE, feedNow, gets, fpc, furl, fret

\* One call of a function that only computes, and its result.
VARIABLES call, result

feedVars == <<_FEED_CACHE, feedNow, gets, fpc, furl, fret>>
callVars == <<call, result>>

\* ------------------------------------------------- feed fetcher, at rest
\* CACHE_TTL of jornal2.py (environment variable JC_CACHE_TTL), in seconds.
JC_CACHE_TTL == 180

\* Two threads call carregar_feed (a background rebuild and a /refresh).
Callers == {"rebuild", "refresh"}
Urls == {"https://www.infomoney.com.br/feed/", "https://exame.com/feed/"}

\* A parsed feed as carregar_feed returns it: dict(parsed) of feedparser
\* (meta: the keys feedparser adds, such as "feed" and "bozo") or the
\* literal {"entries": []} of the except branch.
Parsed(es) == [entries |-> es, meta |-> TRUE]
EmptyResult == [entries |-> <<>>, meta |-> FALSE]

\* _FEED_CACHE.get(url) of an absent key (None), and a stored (ts, parsed)
NoEntry == [has |-> FALSE, ts |-> 0, parsed |-> EmptyResult]
Entry(ts, out) == [has |-> TRUE, ts |-> ts, parsed |-> out]

\* What a caller holds before carregar_feed has returned to it.
NoReturn == [via |-> "none", value |-> EmptyResult]

FeedIdle ==
    /\ _FEED_CACHE = [u \in Urls |-> NoEntry]
    /\ feedNow = 0
    /\ gets = [u \in Urls |-> 0]
    /\ fpc = [c \in Callers |-> "idle"]
    /\ furl = [c \in Callers |-> "none"]
    /\ fret = [c \in Callers |-> NoReturn]

\* No call of a computing function is under way.
NoCall == [fn |-> "none"]
Pending == [done |-> FALSE]
CallIdle == call = NoCall /\ result = Pending

locals == <<route, first, snap, ret, rep>>
disk == <<file, tmp>>
vars == <<pc, route, first, snap, ret, rep, file, tmp, cacheLock, refreshLock, refreshing, now>>

\* pc values of a thread inside refresh_cache_sync
SyncPcs == {"building", "w_lock", "w_replace", "w_except"}
Built(p) == ~snap[p].updated_at.null

Init ==
    /\ pc = [p \in Procs |-> "idle"]
    /\ route = [r \in ReqIds |-> "none"]
    /\ first = [r \in ReqIds |-> Pair(EmptySnapshot)]
    /\ snap = [p \in Procs |-> EmptySnapshot]
    /\ ret = [r \in ReqIds |-> Pair(EmptySnapshot)]
    /\ rep = [r \in ReqIds |-> None]
    /\ file \in {MissingFile, CorruptFile, JsonFile(SeedSnapshot)}
    /\ tmp = MissingFile
    /\ cacheLock = NoThread
    /\ refreshLock = NoThread
    /\ refreshing = FALSE
    /\ now = StartClock
    /\ FeedIdle
    /\ CallIdle

\* ------------------------------------------------------------ environment
\* The clock advances by one second.
Tick ==
    /\ now < StartClock + MaxTicks
    /\ now' = now + 1
    /\ UNCHANGED <<pc, locals, disk, cacheLock, refreshLock, refreshing>>
    /\ UNCHANGED <<feedVars, callVars>>

\* ------------------------------------------------------------- _CACHE_LOCK
\* Variant: the with block is opened one line earlier, around the build too.
LockedPcsWholeSync == {"building", "w_lock", "w_replace", "w_except"}

\* The pc values of refresh_cache_sync that lie inside its
\* "with _CACHE_LOCK:" block: the call of _write_cache_file.
LockedPcs == {"w_replace", "w_except"}

\* Thread p moves to pc value q: entering the with block waits for the lock
\* and takes it, leaving the block (normally or by an exception) releases it.
Move(p, q) ==
    /\ (q \in LockedPcs /\ pc[p] \notin LockedPcs) => cacheLock = NoThread
    /\ pc' = [pc EXCEPT ![p] = q]
    /\ cacheLock' = IF q \in LockedPcs THEN p
                    ELSE IF pc[p] \in LockedPcs THEN NoThread ELSE cacheLock

\* -------------------------------------------------------------- requests
\* Requests are numbered in the order in which their serving threads start
\* to run: request r is taken up once all the requests before it have been.
NextToArrive(r) == \A q \in ReqIds : q < r => pc[q] # "idle"

\* ----------------------------------------------------- get_buckets_cached
\* with _CACHE_LOCK: data = _read_cache_file(); then updated_at, buckets = ...
GetBucketsRead(r) ==
    /\ pc[r] = "idle"
    /\ NextToArrive(r)
    /\ cacheLock = NoThread
    /\ LET res == _read_cache_file(file) IN
        /\ first' = [first EXCEPT ![r] = Pair(res.data)]
        /\ pc' = [pc EXCEPT ![r] = IF res.raised THEN "raised" ELSE "r_decide"]
    /\ route' = [route EXCEPT ![r] = "page"]
    /\ UNCHANGED <<snap, ret, rep, disk, cacheLock, refreshLock, refreshing, now>>
    /\ UNCHANGED <<feedVars, callVars>>

IsStale(p, clock) == _cache_age_seconds(p.updated_at, clock) > CACHE_TTL

\* Variant: a stale request calls refresh_cache_sync() itself.
SpawnRefreshInline(r) == [pc EXCEPT ![r] = "building"]

\* threading.Thread(target=refresh_cache_background, daemon=True).start(),
\* then return: the request is over and its background thread is runnable.
SpawnRefresh(r) == [pc EXCEPT ![r] = "done", ![Bg(r)] = "bg_acquire"]

GetBucketsDecide(r) ==
    /\ pc[r] = "r_decide"
    /\ IF IsCold(first[r])
       THEN /\ Move(r, "building")
            /\ ret' = ret
       ELSE IF IsStale(first[r], now)
       THEN /\ pc' = SpawnRefresh(r)
            /\ ret' = [ret EXCEPT ![r] = first[r]]
            /\ cacheLock' = cacheLock
       ELSE /\ pc' = [pc EXCEPT ![r] = "done"]
            /\ ret' = [ret EXCEPT ![r] = first[r]]
            /\ cacheLock' = cacheLock
    /\ UNCHANGED <<route, first, snap, rep, disk, refreshLock, refreshing, now>>
    /\ UNCHANGED <<feedVars, callVars>>

\* return (data.get("buckets") or {}), data.get("updated_at")
ColdReturn(reread) == Pair(reread)

\* Cold path, after refresh_cache_sync(): with _CACHE_LOCK: data = _read_cache_file()
\* and the return, which ends the request (what it built is kept by nobody).
GetBucketsReread(r) ==
    /\ pc[r] = "rr_lock"
    /\ cacheLock = NoThread
    /\ LET res == _read_cache_file(file) IN
        /\ ret' = [ret EXCEPT ![r] = IF res.raised THEN ret[r] ELSE ColdReturn(res.data)]
        /\ pc' = [pc EXCEPT ![r] = IF res.raised THEN "raised" ELSE "done"]
    /\ snap' = [snap EXCEPT ![r] = EmptySnapshot]
    /\ UNCHANGED <<route, first, rep, disk, cacheLock, refreshLock, refreshing, now>>
    /\ UNCHANGED <<feedVars, callVars>>

\* ------------------------------------------------------ refresh_cache_sync
\* Where a thread continues once refresh_cache_sync has returned.
AfterSync(p) ==
    IF p \in BgIds THEN "bg_finally" ELSE IF route[p] = "page" THEN "rr_lock" ELSE "report"

\* data = _build_cache_from_feeds(): the feeds are collected (g is what they
\* hold at that time) and the snapshot is stamped when the collection ends.
BuildFinish(p) ==
    /\ pc[p] = "building"
    /\ \E g \in BOOLEAN : snap' = [snap EXCEPT ![p] = _build_cache_from_feeds(g, now)]
    /\ Move(p, "w_lock")
    /\ UNCHANGED <<route, first, ret, rep, disk, refreshLock, refreshing, now>>
    /\ UNCHANGED <<feedVars, callVars>>

\* Variant: no handler, the failure leaves refresh_cache_sync as an exception.
OnWriteErrorUncaught == "raised"

\* except Exception as e: the handler every failure inside the try reaches.
OnWriteError == "w_except"

\* Variant: the snapshot is dumped into CACHE_FILE itself.
DumpDirect(d, outcome) ==
    CASE outcome = "ok" -> <<JsonFile(d), tmp>>
      [] outcome = "dump_failed" -> <<PartialFile(d), tmp>>
      [] OTHER -> <<file, tmp>>

\* open(tmp, "w") and json.dump(data, f): <<file, tmp>> afterwards.  The open
\* may fail (no temp file), the dump may fail (a temp file cut short).
Dump(d, outcome) ==
    CASE outcome = "ok" -> <<file, JsonFile(d)>>
      [] outcome = "dump_failed" -> <<file, PartialFile(d)>>
      [] OTHER -> <<file, tmp>>

\* with _CACHE_LOCK: _write_cache_file(data), up to the end of json.dump
WriteDump(p) ==
    /\ pc[p] = "w_lock"
    /\ \E outcome \in {"ok", "open_failed", "dump_failed"} :
        /\ Move(p, IF outcome = "ok" THEN "w_replace" ELSE OnWriteError)
        /\ file' = Dump(snap[p], outcome)[1]
        /\ tmp' = Dump(snap[p], outcome)[2]
    /\ UNCHANGED <<locals, refreshLock, refreshing, now>>
    /\ UNCHANGED <<feedVars, callVars>>

\* os.replace(tmp, CACHE_FILE), after which the with block is left.
WriteReplace(p) ==
    /\ pc[p] = "w_replace"
    /\ \E ok \in BOOLEAN :
        IF ok /\ tmp.kind # "missing"
        THEN /\ file' = tmp
             /\ tmp' = MissingFile
             /\ Move(p, AfterSync(p))
        ELSE /\ UNCHANGED disk
             /\ Move(p, OnWriteError)
    /\ UNCHANGED <<locals, refreshLock, refreshing, now>>
    /\ UNCHANGED <<feedVars, callVars>>

\* os.remove(tmp) in the handler (an OSError is passed over).
RemoveTmp == MissingFile

\* The handler ends and the with block is left normally.
WriteExcept(p) ==
    /\ pc[p] = "w_except"
    /\ tmp' = RemoveTmp
    /\ file' = file
    /\ Move(p, AfterSync(p))
    /\ UNCHANGED <<locals, refreshLock, refreshing, now>>
    /\ UNCHANGED <<feedVars, callVars>>

\* ----------------------------------------------- refresh_cache_background
\* Variant: the acquire is not checked, every thread goes on.
TryAcquireUnchecked == TRUE

\* _REFRESH_LOCK.acquire(blocking=False) succeeds only on a free lock.
TryAcquire == refreshLock = NoThread

\* if not acquire: return; then inside the try: if _REFRESHING: return
BgAcquire(b) ==
    /\ pc[b] = "bg_acquire"
    /\ IF TryAcquire
       THEN /\ refreshLock' = b
            /\ pc' = [pc EXCEPT ![b] = IF refreshing THEN "bg_release" ELSE "bg_set"]
       ELSE /\ refreshLock' = refreshLock
            /\ pc' = [pc EXCEPT ![b] = "dropped"]
    /\ UNCHANGED <<locals, disk, cacheLock, refreshing, now>>
    /\ UNCHANGED <<feedVars, callVars>>

\* _REFRESHING = True, then refresh_cache_sync() is entered
BgSet(b) ==
    /\ pc[b] = "bg_set"
    /\ refreshing' = TRUE
    /\ Move(b, "building")
    /\ UNCHANGED <<locals, disk, refreshLock, now>>
    /\ UNCHANGED <<feedVars, callVars>>

\* inner finally: _REFRESHING = False
BgFinally(b) ==
    /\ pc[b] = "bg_finally"
    /\ refreshing' = FALSE
    /\ pc' = [pc EXCEPT ![b] = "bg_release"]
    /\ snap' = [snap EXCEPT ![b] = EmptySnapshot]
    /\ UNCHANGED <<route, first, ret, rep, disk, cacheLock, refreshLock, now>>
    /\ UNCHANGED <<feedVars, callVars>>

\* outer finally: _REFRESH_LOCK.release(); "rebuilt" ends a thread that ran
\* the rebuild, "skipped" one that found _REFRESHING set.
BgRelease(b) ==
    /\ pc[b] = "bg_release"
    /\ refreshLock' = NoThread
    /\ pc' = [pc EXCEPT ![b] = IF refreshing THEN "skipped" ELSE "rebuilt"]
    /\ UNCHANGED <<locals, disk, cacheLock, refreshing, now>>
    /\ UNCHANGED <<feedVars, callVars>>

\* ------------------------------------------------------------ GET /refresh
\* refresh(): refresh_cache_sync() is called in the serving thread
ManualStart(m) ==
    /\ pc[m] = "idle"
    /\ NextToArrive(m)
    /\ route' = [route EXCEPT ![m] = "refresh"]
    /\ Move(m, "building")
    /\ UNCHANGED <<first, snap, ret, rep, disk, refreshLock, refreshing, now>>
    /\ UNCHANGED <<feedVars, callVars>>

\* return {"ok": True, "updated_at": _now_iso()}
ReportedUpdatedAt(m) == _now_iso(now)

ManualReport(m) ==
    /\ pc[m] = "report"
    /\ rep' = [rep EXCEPT ![m] = ReportedUpdatedAt(m)]
    /\ pc' = [pc EXCEPT ![m] = "done"]
    /\ snap' = [snap EXCEPT ![m] = EmptySnapshot]
    /\ UNCHANGED <<route, first, ret, disk, cacheLock, refreshLock, refreshing, now>>
    /\ UNCHANGED <<feedVars, callVars>>

Next ==
    \/ Tick
    \/ \E r \in ReqIds : GetBucketsRead(r)
    \/ \E r \in ReqIds : GetBucketsDecide(r)
    \/ \E r \in ReqIds : GetBucketsReread(r)
    \/ \E p \in Procs : BuildFinish(p)
    \/ \E p \in Procs : WriteDump(p)
    \/ \E p \in Procs : WriteReplace(p)
    \/ \E p \in Procs : WriteExcept(p)
    \/ \E b \in BgIds : BgAcquire(b)
    \/ \E b \in BgIds : BgSet(b)
    \/ \E b \in BgIds : BgFinally(b)
    \/ \E b \in BgIds : BgRelease(b)
    \/ \E m \in ReqIds : ManualStart(m)
    \/ \E m \in ReqIds : ManualReport(m)

Spec == Init /\ [][Next]_vars
\* ============================================ feed fetcher (src/jornal2.py)
\* The cache model never moves while the feed fetcher is looked at.
CacheIdle ==
    /\ pc = [p \in Procs |-> "idle"]
    /\ route = [r \in ReqIds |-> "none"]
    /\ first = [r \in ReqIds |-> Pair(EmptySnapshot)]
    /\ snap = [p \in Procs |-> EmptySnapshot]
    /\ ret = [r \in ReqIds |-> Pair(EmptySnapshot)]
    /\ rep = [r \in ReqIds |-> None]
    /\ file = MissingFile
    /\ tmp = MissingFile
    /\ cacheLock = NoThread
    /\ refreshLock = NoThread
    /\ refreshing = FALSE
    /\ now = StartClock

\* What the origin serves: lists of raw entries ("a" stands for one).
Bodies == {<<>>, <<"a">>}

\* What happens to a request that missed the cache.  xml: the GET succeeds and
\* the body is parsed; not_xml: the body shows no XML marker and feedparser
\* fetches the URL itself; the others raise inside the try block.
Failures == {"get_raises", "bad_status", "parse_raises"}
Outcomes ==
    [kind : {"xml", "not_xml"}, entries : Bodies] \cup [kind : Failures, entries : {<<>>}]

\* Variant: the comparison is made against a TTL of no seconds at all.
_cache_expired_at_once(ts, clock) == (clock - ts) >= 0

\* _cache_expired: (time.time() - ts) > CACHE_TTL
_cache_expired(ts, clock) == (clock - ts) > JC_CACHE_TTL

\* Variant: no handler, the failure leaves carregar_feed as an exception.
OnFetchErrorUncaught == [raised |-> TRUE, out |-> EmptyResult]

\* except Exception: out = {"entries": []}
OnFetchError == [raised |-> FALSE, out |-> EmptyResult]

\* The try block of carregar_feed on outcome o.
Fetch(o) ==
    IF o.kind \in Failures THEN OnFetchError
    ELSE [raised |-> FALSE, out |-> Parsed(o.entries)]

\* How a returned value was obtained: from the cache, by a fetch, or as the
\* empty result of a failed fetch.
Via(o) == IF o.kind \in Failures THEN "failure" ELSE "fetch"

\* _FEED_CACHE[url] = (time.time(), out)
Store(cache, url, clock, out) == [cache EXCEPT ![url] = Entry(clock, out)]

\* Variant: the empty result of a failure is returned but not stored.
SkipStore(cache, url, clock, out) == cache

\* The store of the except branch.
StoreOnError(cache, url, clock, out) == Store(cache, url, clock, out)

\* The feed clock advances by one second or by one second less than the TTL.
FeedSteps == {1, JC_CACHE_TTL - 1}
TicksUsed(t) == (t % (JC_CACHE_TTL - 1)) + (t \div (JC_CACHE_TTL - 1))

FeedTick ==
    /\ TicksUsed(feedNow) < MaxFeedTicks
    /\ \E d \in FeedSteps : feedNow' = feedNow + d
    /\ UNCHANGED <<_FEED_CACHE, gets, fpc, furl, fret>>
    /\ UNCHANGED <<vars, callVars>>

\* The network requests issued so far, over all URLs.
RECURSIVE SumOver(_, _)
SumOver(f, S) ==
    IF S = {} THEN 0
    ELSE LET x == CHOOSE y \in S : TRUE IN f[x] + SumOver(f, S \ {x})
TotalGets == SumOver(gets, Urls)

\* carregar_feed(url), up to the return of a cache hit or to the GET of a miss.
CarregarFeedLookup(c, url) ==
    /\ fpc[c] \in {"idle", "returned"}
    /\ furl' = [furl EXCEPT ![c] = url]
    /\ LET cached == _FEED_CACHE[url] IN
        IF cached.has /\ ~_cache_expired(cached.ts, feedNow)
        THEN /\ fret' = [fret EXCEPT ![c] = [via |-> "cache", value |-> cached.parsed]]
             /\ fpc' = [fpc EXCEPT ![c] = "returned"]
             /\ gets' = gets
        ELSE /\ TotalGets < MaxGets
             /\ fret' = [fret EXCEPT ![c] = NoReturn]
             /\ fpc' = [fpc EXCEPT ![c] = "fetching"]
             /\ gets' = [gets EXCEPT ![url] = @ + 1]
    /\ UNCHANGED <<_FEED_CACHE, feedNow>>
    /\ UNCHANGED <<vars, callVars>>

\* The rest of carregar_feed after a miss: the response, the parse, the store
\* (timestamped now) and the return.
CarregarFeedFinish(c) ==
    /\ fpc[c] = "fetching"
    /\ \E o \in Outcomes :
        LET res == Fetch(o) IN
        /\ fpc' = [fpc EXCEPT ![c] = IF res.raised THEN "raised" ELSE "returned"]
        /\ fret' = [fret EXCEPT ![c] = IF res.raised THEN NoReturn
                                      ELSE [via |-> Via(o), value |-> res.out]]
        /\ _FEED_CACHE' = IF res.raised THEN _FEED_CACHE
                          ELSE IF o.kind \in Failures
                          THEN StoreOnError(_FEED_CACHE, furl[c], feedNow, res.out)
                          ELSE Store(_FEED_CACHE, furl[c], feedNow, res.out)
        /\ gets' = IF o.kind = "not_xml" THEN [gets EXCEPT ![furl[c]] = @ + 1] ELSE gets
    /\ UNCHANGED <<feedNow, furl>>
    /\ UNCHANGED <<vars, callVars>>

InitFeed == CacheIdle /\ FeedIdle /\ CallIdle

NextFeed ==
    \/ FeedTick
    \/ \E c \in Callers, url \in Urls : CarregarFeedLookup(c, url)
    \/ \E c \in Callers : CarregarFeedFinish(c)

allVars == <<vars, feedVars, callVars>>
SpecFeed == InitFeed /\ [][NextFeed]_allVars

\* ================================================ collector (src/jornal2.py)
\* Texts are sequences of characters.
Text_Flamengo == <<"F", "l", "a", "m", "e", "n", "g", "o">>
Text_mercado == <<"m", "e", "r", "c", "a", "d", "o">>
Text_Bitcoin == <<"B", "i", "t", "c", "o", "i", "n">>
Text_SELIC == <<"S", "E", "L", "I", "C">>
Text_gol == <<"g", "o", "l">>
Text_Big == <<"B", "i", "g">>
Text_Brother == <<"B", "r", "o", "t", "h", "e", "r">>
Text_realidade == <<"r", "e", "a", "l", "i", "d", "a", "d", "e">>
Text_tag_mercado == <<"<", "a", " ", "m", "e", "r", "c", "a", "d", "o", ">">>
Text_leia_mais == <<"L", "e", "i", "a", " ", "m", "a", "i", "s", ".", ".", ".">>

\* str.lower() on one character
ToLower(ch) ==
    CASE ch = "A" -> "a" []
         ch = "B" -> "b" []
         ch = "C" -> "c" []
         ch = "D" -> "d" []
         ch = "E" -> "e" []
         ch = "F" -> "f" []
         ch = "G" -> "g" []
         ch = "H" -> "h" []
         ch = "I" -> "i" []
         ch = "J" -> "j" []
         ch = "K" -> "k" []
         ch = "L" -> "l" []
         ch = "M" -> "m" []
         ch = "N" -> "n" []
         ch = "O" -> "o" []
         ch = "P" -> "p" []
         ch = "Q" -> "q" []
         ch = "R" -> "r" []
         ch = "S" -> "s" []
         ch = "T" -> "t" []
         ch = "U" -> "u" []
         ch = "V" -> "v" []
         ch = "W" -> "w" []
         ch = "X" -> "x" []
         ch = "Y" -> "y" []
         ch = "Z" -> "z" []
         ch = "Á" -> "á" []
         ch = "Â" -> "â" []
         ch = "Ã" -> "ã" []
         ch = "Ç" -> "ç" []
         ch = "É" -> "é" []
         ch = "Í" -> "í" []
         ch = "Ó" -> "ó" []
         ch = "Õ" -> "õ" []
         OTHER -> ch

\* str.lower()
Lower(s) == [i \in 1..Len(s) |-> ToLower(s[i])]

\* term in blob (substring test)
Contains(blob, term) ==
    \E i \in 1..(Len(blob) - Len(term) + 1) : SubSeq(blob, i, i + Len(term) - 1) = term

_ECO_KEYWORDS == <<
    <<"e", "c", "o", "n", "o", "m", "i", "a">>,
    <<"i", "n", "f", "l", "a", "ç", "ã", "o">>,
    <<"i", "p", "c", "a">>,
    <<"i", "g", "p">>,
    <<"p", "i", "b">>,
    <<"s", "e", "l", "i", "c">>,
    <<"c", "o", "p", "o", "m">>,
    <<"b", "a", "n", "c", "o", " ", "c", "e", "n", "t", "r", "a", "l">>,
    <<"j", "u", "r", "o", "s">>,
    <<"c", "â", "m", "b", "i", "o">>,
    <<"d", "ó", "l", "a", "r">>,
    <<"r", "e", "a", "l">>,
    <<"f", "i", "s", "c", "a", "l">>,
    <<"d", "é", "f", "i", "c", "i", "t">>,
    <<"s", "u", "p", "e", "r", "á", "v", "i", "t">>,
    <<"t", "e", "s", "o", "u", "r", "o">>,
    <<"t", "r", "i", "b", "u", "t">>,
    <<"i", "m", "p", "o", "s", "t", "o">>,
    <<"r", "e", "f", "o", "r", "m", "a">>,
    <<"o", "r", "ç", "a", "m", "e", "n", "t", "o">>,
    <<"b", "o", "l", "s", "a">>,
    <<"b", "3">>,
    <<"a", "ç", "õ", "e", "s">>,
    <<"a", "c", "i", "o", "n", "i", "s", "t", "a">>,
    <<"d", "i", "v", "i", "d", "e", "n", "d">>,
    <<"i", "b", "o", "v", "e", "s", "p", "a">>,
    <<"í", "n", "d", "i", "c", "e">>,
    <<"e", "m", "p", "r", "e", "s", "a">>,
    <<"l", "u", "c", "r", "o">>,
    <<"r", "e", "c", "e", "i", "t", "a">>,
    <<"b", "a", "l", "a", "n", "ç", "o">>,
    <<"g", "u", "i", "d", "a", "n", "c", "e">>,
    <<"m", "&", "a">>,
    <<"f", "u", "s">>,
    <<"a", "q", "u", "i", "s", "i">>,
    <<"e", "c", "o", "n", "o", "m", "i", "s", "t", "a">>,
    <<"m", "e", "r", "c", "a", "d", "o">>,
    <<"i", "n", "v", "e", "s", "t">>,
    <<"f", "u", "n", "d">>,
    <<"b", "a", "n", "c", "o">>,
    <<"c", "r", "e", "d", "i", "t", "o">>,
    <<"c", "r", "é", "d", "i", "t", "o">>,
    <<"c", "r", "i", "p", "t", "o">>,
    <<"c", "r", "i", "p", "t", "o", "m", "o", "e", "d", "a">>,
    <<"b", "i", "t", "c", "o", "i", "n">>,
    <<"b", "t", "c">>,
    <<"e", "t", "h", "e", "r", "e", "u", "m">>,
    <<"e", "t", "h">>,
    <<"b", "l", "o", "c", "k", "c", "h", "a", "i", "n">>,
    <<"t", "o", "k", "e", "n">>,
    <<"d", "e", "f", "i">>,
    <<"s", "t", "a", "b", "l", "e", "c", "o", "i", "n">>,
    <<"b", "i", "n", "a", "n", "c", "e">>,
    <<"c", "o", "i", "n", "b", "a", "s", "e">>
>>

_ECO_BLACKLIST == <<
    <<"b", "b", "b">>,
    <<"b", "i", "g", " ", "b", "r", "o", "t", "h", "e", "r">>,
    <<"c", "a", "r", "n", "a", "v", "a", "l">>,
    <<"r", "i", "o", " ", "o", "p", "e", "n">>,
    <<"a", "n", "i", "t", "t", "a">>,
    <<"n", "o", "v", "e", "l", "a">>,
    <<"c", "a", "m", "p", "e", "ã">>,
    <<"c", "a", "m", "p", "e", "a", "o">>,
    <<"e", "l", "i", "m", "i", "n", "a", "d", "o">>,
    <<"p", "a", "r", "e", "d", "ã", "o">>,
    <<"p", "a", "r", "e", "d", "a", "o">>,
    <<"f", "u", "t", "e", "b", "o", "l">>,
    <<"f", "l", "a", "m", "e", "n", "g", "o">>,
    <<"c", "o", "r", "i", "n", "t", "h", "i", "a", "n", "s">>,
    <<"p", "a", "l", "m", "e", "i", "r", "a", "s">>,
    <<"s", "a", "n", "t", "o", "s">>,
    <<"s", "ã", "o", " ", "p", "a", "u", "l", "o">>,
    <<"o", "s", "c", "a", "r">>,
    <<"g", "r", "a", "m", "m", "y">>
>>

\* Variant: the keywords are looked for first, and a hit admits the entry.
_match_economia_keywords_first(title, summary) ==
    LET blob == Lower(title) \o <<" ">> \o Lower(summary) IN
    IF \E i \in DOMAIN _ECO_KEYWORDS : Contains(blob, _ECO_KEYWORDS[i]) THEN TRUE
    ELSE FALSE

\* _match_economia: blob = f"{t} {s}"; any black-list term rejects, then any
\* keyword admits, else the entry is rejected.
_match_economia(title, summary) ==
    LET blob == Lower(title) \o <<" ">> \o Lower(summary) IN
    IF \E i \in DOMAIN _ECO_BLACKLIST : Contains(blob, _ECO_BLACKLIST[i]) THEN FALSE
    ELSE IF \E i \in DOMAIN _ECO_KEYWORDS : Contains(blob, _ECO_KEYWORDS[i]) THEN TRUE
    ELSE FALSE

\* A raw feed entry: its Atom links (rel, href), its RSS link, its title and
\* summary, and its published_parsed / updated_parsed times in minutes since
\* midnight UTC (0: the field is absent).
RawEntry(links, link, title, summary, published, updated) ==
    [links |-> links, link |-> link, title |-> title, summary |-> summary,
     published_parsed |-> published, updated_parsed |-> updated]

Min(S) == CHOOSE x \in S : \A y \in S : x <= y

\* entry_link: the first link with rel == "alternate" and an href, else the
\* first link with an href, else the "link" field, else "".
entry_link(entry) ==
    LET withHref == {i \in 1..Len(entry.links) : entry.links[i].href # ""}
        alternate == {i \in withHref : entry.links[i].rel = "alternate"}
    IN  IF alternate # {} THEN entry.links[Min(alternate)].href
        ELSE IF withHref # {} THEN entry.links[Min(withHref)].href
        ELSE entry.link

\* entry_ts: published_parsed or updated_parsed, 0.0 when both are absent
entry_ts(e) == IF e.published_parsed # 0 THEN e.published_parsed ELSE e.updated_parsed

Max(S) == CHOOSE x \in S : \A y \in S : x >= y

\* The character U+00A0 (no-break space), one character of a text.
Nbsp == "(nbsp)"

\* \s of the regular expressions, on the characters the texts are made of
IsSpace(ch) == ch \in {" ", "\t", "\n", Nbsp}

\* _RE_TAG.sub(" ", s): every "<", one or more characters other than ">",
\* ">" becomes one blank.
CloseOf(s, i) == Min({j \in (i + 1)..Len(s) : s[j] = ">"})
RECURSIVE SubTags(_)
SubTags(s) ==
    LET opens == {i \in 1..Len(s) :
                    /\ s[i] = "<"
                    /\ \E j \in (i + 1)..Len(s) : s[j] = ">"
                    /\ CloseOf(s, i) >= i + 2}
    IN  IF opens = {} THEN s
        ELSE LET i == Min(opens) IN
             SubSeq(s, 1, i - 1) \o <<" ">> \o SubTags(SubSeq(s, CloseOf(s, i) + 1, Len(s)))

\* _RE_SPACE.sub(" ", s): every run of white space becomes one blank.
RECURSIVE SubSpaces(_)
SubSpaces(s) ==
    LET blanks == {i \in 1..Len(s) : IsSpace(s[i])} IN
    IF blanks = {} THEN s
    ELSE LET i == Min(blanks)
             others == {j \in i..Len(s) : ~IsSpace(s[j])}
         IN  SubSeq(s, 1, i - 1) \o <<" ">>
             \o (IF others = {} THEN <<>> ELSE SubSpaces(SubSeq(s, Min(others), Len(s))))

\* str.rstrip(chars) and str.strip()
RStrip(s, chars) ==
    LET keep == {j \in 1..Len(s) : s[j] \notin chars}
    IN  IF keep = {} THEN <<>> ELSE SubSeq(s, 1, Max(keep))
Strip(s) ==
    LET keep == {j \in 1..Len(s) : ~IsSpace(s[j])}
    IN  IF keep = {} THEN <<>> ELSE SubSeq(s, Min(keep), Max(keep))

\* _strip_html of jornal2.py
_strip_html(s) == Strip(SubSpaces(SubTags(s)))

\* The phrases removed from the end of a summary, whatever their case.
ReadMore == {
    <<"c", "o", "n", "t", "i", "n", "u", "e", " ", "r", "e", "a", "d", "i", "n", "g">>,
    <<"l", "e", "i", "a", " ", "m", "a", "i", "s">>,
    <<"s", "a", "i", "b", "a", " ", "m", "a", "i", "s">>}

\* re.sub(r"(continue reading|leia mais|saiba mais)\.*$", "", txt, flags=re.I)
SubReadMore(txt) ==
    LET body == RStrip(txt, {"."})
        hits == {ph \in ReadMore :
                    /\ Len(body) >= Len(ph)
                    /\ Lower(SubSeq(body, Len(body) - Len(ph) + 1, Len(body))) = ph}
    IN  IF hits = {} THEN txt
        ELSE LET ph == CHOOSE x \in hits : TRUE IN SubSeq(body, 1, Len(body) - Len(ph))

\* The characters U+2014 and U+2026, each one character of a text.
EmDash == "(em dash)"
Ellipsis == "(ellipsis)"

\* max_chars of entry_summary
SummaryMaxChars == 280

\* entry_summary: the summary without markup and without a closing "read
\* more", whole when it has at most max_chars characters, else cut at the
\* last blank of its first max_chars + 1 characters and closed by an ellipsis.
entry_summary(e) ==
    IF e.summary = <<>> THEN <<>>
    ELSE LET txt == Strip(SubReadMore(_strip_html(e.summary))) IN
         IF Len(txt) <= SummaryMaxChars THEN txt
         ELSE LET head == SubSeq(txt, 1, SummaryMaxChars + 1)
                  blanks == {j \in 1..Len(head) : head[j] = " "}
                  cut == IF blanks = {} THEN head ELSE SubSeq(head, 1, Max(blanks) - 1)
              IN  RStrip(IF cut # <<>> THEN cut ELSE SubSeq(txt, 1, SummaryMaxChars),
                         {".", ",", ";", ":", EmDash, "-", " "}) \o <<Ellipsis>>

\* feed.get("entries", []) or [] of carregar_feed(url), given what the
\* network does for each URL
FeedEntries(net, url) == Fetch(net[url]).out.entries

\* The raw entries in discovery order: feed-list order, then order in the feed.
RECURSIVE Discovered(_, _)
Discovered(net, urls) ==
    IF urls = <<>> THEN <<>>
    ELSE FeedEntries(net, Head(urls)) \o Discovered(net, Tail(urls))

\* Variant: no link is ever taken as seen.
SeenNever(link, vistos) == FALSE

\* if link in vistos
Seen(link, vistos) == link \in vistos

\* The body of the loop over the entries: skip an entry without link, add the
\* jc_ fields, filter (economy topic only), skip a link already seen.
RECURSIVE Accumulate(_, _, _, _)
Accumulate(tema, entries, itens, vistos) ==
    IF entries = <<>> THEN itens
    ELSE LET entry == Head(entries)
             link == entry_link(entry)
             e == [jc_link |-> link, jc_ts |-> entry_ts(entry),
                   jc_summary |-> entry_summary(entry)] @@ entry
         IN  IF link = "" THEN Accumulate(tema, Tail(entries), itens, vistos)
             ELSE IF tema = "Economia" /\ ~_match_economia(e.title, e.jc_summary)
             THEN Accumulate(tema, Tail(entries), itens, vistos)
             ELSE IF Seen(link, vistos) THEN Accumulate(tema, Tail(entries), itens, vistos)
             ELSE Accumulate(tema, Tail(entries), Append(itens, e), vistos \cup {link})

\* Variant: an entry goes before the earlier entries of the same timestamp.
GoesAfterNewer(earlier, later) == earlier > later

\* list.sort(reverse=True) is stable: an entry goes after every earlier entry
\* whose key is greater or equal.
GoesAfter(earlier, later) == earlier >= later

\* The order in which list.sort(key=..., reverse=True) leaves the positions
\* 1..n of a list with these keys.
RECURSIVE SortedOrder(_, _)
SortedOrder(keys, n) ==
    IF n = 0 THEN <<>>
    ELSE LET prev == SortedOrder(keys, n - 1)
             at == Cardinality({j \in 1..Len(prev) : GoesAfter(keys[prev[j]], keys[n])})
         IN  SubSeq(prev, 1, at) \o <<n>> \o SubSeq(prev, at + 1, Len(prev))

SortDesc(items, keys) ==
    LET order == SortedOrder(keys, Len(items)) IN [i \in 1..Len(items) |-> items[order[i]]]

\* key=lambda x: float(x.get("jc_ts") or entry_ts(x) or 0.0)
SortKey(x) == IF x.jc_ts # 0 THEN x.jc_ts ELSE entry_ts(x)

\* An Optional[int]: None is <<>>, the integer n is <<n>>.
NoLimit == <<>>
Limit(n) == <<n>>
Truthy(l) == l # <<>> /\ l[1] # 0

\* seq[:n] of Python
PySlice(seq, n) ==
    IF n >= 0 THEN SubSeq(seq, 1, IF n < Len(seq) THEN n ELSE Len(seq))
    ELSE SubSeq(seq, 1, IF Len(seq) + n > 0 THEN Len(seq) + n ELSE 0)

\* Variant: the limit is applied to the collected list before it is sorted.
CutEarly(itens, limite_total) ==
    LET cut == IF Truthy(limite_total) THEN PySlice(itens, limite_total[1]) ELSE itens
    IN  SortDesc(cut, [i \in 1..Len(cut) |-> SortKey(cut[i])])

\* itens.sort(...); return itens[:limite_total] if limite_total else itens
SortAndCut(itens, limite_total) ==
    LET sorted == SortDesc(itens, [i \in 1..Len(itens) |-> SortKey(itens[i])])
    IN  IF Truthy(limite_total) THEN PySlice(sorted, limite_total[1]) ELSE sorted

Raised == [raised |-> TRUE, value |-> <<>>]
Returned(v) == [raised |-> FALSE, value |-> v]

\* _coletar_de_feeds(tema, urls, limite_total); an exception of carregar_feed
\* would leave it as it came.
_coletar_de_feeds(tema, urls, limite_total, net) ==
    IF \E i \in 1..Len(urls) : Fetch(net[urls[i]]).raised THEN Raised
    ELSE Returned(SortAndCut(Accumulate(tema, Discovered(net, urls), <<>>, {}), limite_total))

\* coletar_noticias_por_tema: limite_total=limite if limite > 0 else None
LimiteTotal(limite) == IF limite > 0 THEN Limit(limite) ELSE NoLimit

\* ------------------------------------------- one call of _coletar_de_feeds
\* The raw entries the feeds are made of.  News_0930 carries the link of
\* News_0900; News_Tie has the time of News_0900; News_Atom has Atom links
\* whose alternate is the link of News_Tie, and no time; News_NoLink has no
\* link at all.
News_1000 == RawEntry(<<>>, "https://a/1", Text_Bitcoin, <<>>, 600, 0)
News_0900 == RawEntry(<<>>, "https://a/2", Text_mercado, <<>>, 540, 0)
News_0930 == RawEntry(<<>>, "https://a/2", Text_SELIC, <<>>, 0, 570)
News_Tie == RawEntry(<<>>, "https://a/5", Text_Flamengo \o <<" ">> \o Text_mercado, <<>>, 540, 0)
News_NoLink == RawEntry(<<>>, "", Text_gol, <<>>, 660, 0)
News_Atom ==
    RawEntry(<<[rel |-> "self", href |-> "https://a/6.atom"],
               [rel |-> "alternate", href |-> "https://a/5"]>>,
             "https://a/6", Text_Bitcoin, <<>>, 0, 0)
RawEntries == {News_1000, News_0900, News_0930, News_Tie, News_NoLink, News_Atom}

\* The feed list of the topic: two URLs, in this order.
FeedList == <<"https://www.infomoney.com.br/feed/", "https://exame.com/feed/">>

\* The network serves feed a under the first URL and feed b under the second.
Net(a, b) ==
    (FeedList[1] :> [kind |-> "xml", entries |-> a]) @@ (FeedList[2] :> [kind |-> "xml", entries |-> b])

FeedsOfLen(n) == [1..n -> RawEntries]
CollectNets ==
    UNION {{Net(a, b) : a \in FeedsOfLen(i), b \in FeedsOfLen(j)} :
           <<i, j>> \in {k \in (0..MaxEntries) \X (0..MaxEntries) : k[1] + k[2] <= MaxEntries}}

Limits == {NoLimit, Limit(0), Limit(1), Limit(2), Limit(10)}

CollectCalls ==
    [fn : {"_coletar_de_feeds"}, tema : {"Esporte", "Economia"},
     net : CollectNets, limite_total : Limits]

InitCollect ==
    /\ CacheIdle /\ FeedIdle
    /\ call \in CollectCalls
    /\ result = Pending

ColetarDeFeeds ==
    /\ call.fn = "_coletar_de_feeds"
    /\ ~result.done
    /\ result' = [done |-> TRUE] @@ _coletar_de_feeds(call.tema, FeedList, call.limite_total, call.net)
    /\ UNCHANGED <<call, vars, feedVars>>

NextCollect == ColetarDeFeeds

SpecCollect == InitCollect /\ [][NextCollect]_allVars

\* ------------------------- one call of _coletar_de_feeds on a single entry
\* The words the texts of an entry are made of; the last two only make
\* sense in a summary, whose markup and closing "read more" are removed.
EcoWords ==
    {Text_Flamengo, Text_mercado, Text_Bitcoin, Text_SELIC, Text_gol, Text_Big,
     Text_Brother, Text_realidade}
EcoSummaries == {<<>>, Text_Brother, Text_mercado, Text_tag_mercado, Text_leia_mais, Text_gol}

\* The words of a list, one blank between two of them.
RECURSIVE Join(_)
Join(words) ==
    IF words = <<>> THEN <<>>
    ELSE IF Len(words) = 1 THEN words[1]
    ELSE words[1] \o <<" ">> \o Join(Tail(words))

EcoTitles == UNION {{Join(w) : w \in [1..n -> EcoWords]} : n \in 0..MaxWords}

\* The first feed serves one entry with a link, the second none.
EcoNets ==
    {Net(<<RawEntry(<<>>, "https://a/1", title, summary, 600, 0)>>, <<>>) :
        title \in EcoTitles, summary \in EcoSummaries}

InitEco ==
    /\ CacheIdle /\ FeedIdle
    /\ call \in [fn : {"_coletar_de_feeds"}, tema : {"Esporte", "Economia"},
                 net : EcoNets, limite_total : {NoLimit}]
    /\ result = Pending

SpecEco == InitEco /\ [][NextCollect]_allVars

\* ------------------------------------ one call of coletar_noticias_por_tema
\* FEEDS_BY_TEMA, in the order of the dictionary, cut down to three topics
\* and to at most two URLs a topic.  As in the source, the InfoMoney feed is
\* in the list of the economy topic and in the list of the latest topic.
FeedTemas == <<"Esporte", "Economia", "Ultimas">>
FEEDS_BY_TEMA ==
    ("Esporte" :> <<"https://rss.uol.com.br/feed/esporte.xml">>)
    @@ ("Economia" :> FeedList)
    @@ ("Ultimas" :> <<"https://g1.globo.com/rss/g1/", "https://www.infomoney.com.br/feed/">>)

Range(seq) == {seq[i] : i \in DOMAIN seq}
BuildUrls == UNION {Range(FEEDS_BY_TEMA[t]) : t \in Range(FeedTemas)}

\* LIMITES_PADRAO, and two dictionaries a caller may pass instead: one
\* without the sport topic and with a limit of 0, one with limits of 1.
LIMITES_PADRAO == ("Esporte" :> 9) @@ ("Economia" :> 20) @@ ("Ultimas" :> 100)
BuildLimites ==
    {LIMITES_PADRAO,
     ("Economia" :> 1) @@ ("Ultimas" :> 0),
     ("Esporte" :> 1) @@ ("Economia" :> 20) @@ ("Ultimas" :> 1)}

\* The loop over FEEDS_BY_TEMA.items(): limites.get(tema, 0), one call of
\* _coletar_de_feeds, buckets[tema] = itens.  There is no handler around the
\* call: an exception of the collector leaves the function.
RECURSIVE CollectTemas(_, _, _, _)
CollectTemas(temas, limites, net, buckets) ==
    IF temas = <<>> THEN Returned(buckets)
    ELSE LET tema == Head(temas)
             limite == IF tema \in DOMAIN limites THEN limites[tema] ELSE 0
             itens == _coletar_de_feeds(tema, FEEDS_BY_TEMA[tema], LimiteTotal(limite), net)
         IN  IF itens.raised THEN Raised
             ELSE CollectTemas(Tail(temas), limites, net, buckets @@ (tema :> itens.value))

\* coletar_noticias_por_tema(limites): the buckets it returns (the flat list
\* it returns beside them is not read by the rebuild).
coletar_noticias_por_tema(limites, net) == CollectTemas(FeedTemas, limites, net, <<>>)

\* What the network does for each URL during one rebuild: a failure, or a
\* feed.  A URL asked for twice in the rebuild is answered the second time
\* from the feed cache, so there is one outcome a URL.
BuildBodies == {<<News_1000, News_0900>>, <<News_0930, News_Tie>>}
BuildOutcomes == [kind : Failures, entries : {<<>>}] \cup [kind : {"xml"}, entries : BuildBodies]
BuildNets == [BuildUrls -> BuildOutcomes]

BuildCalls == [fn : {"coletar_noticias_por_tema"}, limites : BuildLimites, net : BuildNets]

InitBuild ==
    /\ CacheIdle /\ FeedIdle
    /\ call \in BuildCalls
    /\ result = Pending

ColetarNoticiasPorTema ==
    /\ call.fn = "coletar_noticias_por_tema"
    /\ ~result.done
    /\ result' = [done |-> TRUE] @@ coletar_noticias_por_tema(call.limites, call.net)
    /\ UNCHANGED <<call, vars, feedVars>>

NextBuild == ColetarNoticiasPorTema

SpecBuild == InitBuild /\ [][NextBuild]_allVars

\* ------------------------------------------- one call of get_section_cached
\* The candidates of _tema_geral_label, in its order.  Labels are written
\* without emoji and accents, so the second candidate, which is the first
\* without its accent, is spelled out.
GeralCandidates == <<"Ultimas", "Ultimas-sem-acento", "Gerais", "Geral">>

\* An absent label: None or "".
NoLabel == ""

\* _tema_geral_label: the first candidate that is a key of FEEDS_BY_TEMA
_tema_geral_label(temas) ==
    LET hits == {i \in DOMAIN GeralCandidates : GeralCandidates[i] \in Range(temas)}
    IN  IF hits = {} THEN NoLabel ELSE GeralCandidates[Min(hits)]

\* list(buckets.get(k, []) or [])
BucketOf(buckets, k) == IF k \in DOMAIN buckets THEN buckets[k] ELSE <<>>

\* Variant: the general topic is used whenever one is configured.
GeralConfigured(geral, buckets) == geral # NoLabel

\* GERAL_LABEL and GERAL_LABEL in buckets and buckets.get(GERAL_LABEL)
GeralUsable(geral, buckets) ==
    geral # NoLabel /\ geral \in DOMAIN buckets /\ buckets[geral] # <<>>

\* for k in TEMAS: entries = list(buckets.get(k, []) or []); if entries: break
RECURSIVE FirstNonEmpty(_, _)
FirstNonEmpty(buckets, temas) ==
    IF temas = <<>> THEN <<>>
    ELSE IF BucketOf(buckets, Head(temas)) # <<>> THEN BucketOf(buckets, Head(temas))
    ELSE FirstNonEmpty(buckets, Tail(temas))

\* x.get("ts", 0.0)
Ts(x) == IF "ts" \in DOMAIN x THEN x.ts ELSE 0

\* n.pop("ts", None)
PopTs(x) == [f \in DOMAIN x \ {"ts"} |-> x[f]]

\* Variant: the entries are cut in the order of the bucket.
NoticiasInBucketOrder(entries, limit) == PySlice(entries, limit)

\* entries.sort(key=..., reverse=True); noticias = entries[:limit]
Noticias(entries, limit) ==
    PySlice(SortDesc(entries, [i \in 1..Len(entries) |-> Ts(entries[i])]), limit)

\* display_label
display_label(tema) == IF tema = "Geopolitica" THEN "Economia" ELSE tema

\* get_section_cached(tema_label, limit), given the buckets returned by
\* get_buckets_cached and the configured topics (TEMAS, the keys of
\* FEEDS_BY_TEMA, from which GERAL_LABEL is computed).
get_section_cached(tema_label, limit, buckets, temas) ==
    LET geral == _tema_geral_label(temas)
        entries ==
            IF tema_label = NoLabel
            THEN IF GeralUsable(geral, buckets) THEN BucketOf(buckets, geral)
                 ELSE FirstNonEmpty(buckets, temas)
            ELSE BucketOf(buckets, tema_label)
        noticias == Noticias(entries, limit)
    IN  [titulo |-> IF tema_label = NoLabel THEN "Geral" ELSE display_label(tema_label),
         noticias |-> [i \in 1..Len(noticias) |-> PopTs(noticias[i])]]

\* Stored entries of a snapshot; the second and the third have the same time.
Stored(titulo, link, ts) == [titulo |-> titulo, link |-> link, ts |-> ts]
Stored_1000 == Stored("t1", "https://a/1", 600)
Stored_0900 == Stored("t2", "https://a/2", 540)
Stored_Tie == Stored("t5", "https://a/5", 540)
StoredEntries == {Stored_1000, Stored_0900, Stored_Tie}

\* The buckets of a snapshot: lists without repetition, in any order, of at
\* most MaxBucket entries, under some of these keys.
BucketKeys == {"Esporte", "Economia", "Ultimas"}
BucketLists ==
    UNION {{b \in [1..n -> StoredEntries] : \A i, j \in 1..n : b[i] = b[j] => i = j} :
           n \in 0..MaxBucket}
SnapshotBuckets == UNION {[K -> BucketLists] : K \in SUBSET BucketKeys}

\* The configurations: the one of the repository, one without a general
\* topic, one whose general topic is not the last.
SectionConfigs == {TEMAS, <<"Esporte", "Economia">>, <<"Esporte", "Geral", "Economia">>}
SectionLabels == {NoLabel, "Esporte", "Ultimas", "Clima"}
SectionLimits == {-1, 0, 1, 40}

SectionCalls ==
    [fn : {"get_section_cached"}, tema_label : SectionLabels, limit : SectionLimits,
     buckets : SnapshotBuckets, temas : SectionConfigs]

InitSection ==
    /\ CacheIdle /\ FeedIdle
    /\ call \in SectionCalls
    /\ result = Pending

GetSectionCached ==
    /\ call.fn = "get_section_cached"
    /\ ~result.done
    /\ result' = [done |-> TRUE] @@
            Returned(get_section_cached(call.tema_label, call.limit, call.buckets, call.temas))
    /\ UNCHANGED <<call, vars, feedVars>>

NextSection == GetSectionCached

SpecSection == InitSection /\ [][NextSection]_allVars

\* ============================================== sanitising (src/app_min.py)
\* The text from position i on starts with lit; with lower-cased text for
\* the patterns compiled with re.IGNORECASE.
StartsWith(s, i, lit) ==
    i + Len(lit) - 1 <= Len(s) /\ SubSeq(s, i, i + Len(lit) - 1) = lit
StartsWithI(s, i, lit) ==
    i + Len(lit) - 1 <= Len(s) /\ Lower(SubSeq(s, i, i + Len(lit) - 1)) = lit

\* The first ">" at or after position from, 0 when there is none.
FirstClose(s, from) ==
    LET closes == {j \in from..Len(s) : s[j] = ">"} IN IF closes = {} THEN 0 ELSE Min(closes)
\* The first position at or after from that holds no white space.
AfterSpaces(s, from) ==
    LET others == {j \in from..Len(s) : ~IsSpace(s[j])}
    IN  IF others = {} THEN Len(s) + 1 ELSE Min(others)
\* The last position of the run without white space that starts at from.
EndOfRun(s, from) ==
    LET blanks == {j \in from..Len(s) : IsSpace(s[j])}
    IN  IF blanks = {} THEN Len(s) ELSE Min(blanks) - 1

\* Where the match of a pattern that starts at position i ends, 0 when the
\* pattern does not match there.
\*   RE_IMG <img[^>]*>    RE_BR <br\s*/?>    RE_P_CLOSE </p\s*>
\*   RE_P_OPEN <p[^>]*>   RE_TAG <[^>]+>     RE_URL https?://\S+
MatchEnd(re, s, i) ==
    CASE re = "RE_IMG" ->
            IF StartsWithI(s, i, <<"<", "i", "m", "g">>) THEN FirstClose(s, i + 4) ELSE 0
      [] re = "RE_BR" ->
            IF StartsWithI(s, i, <<"<", "b", "r">>)
            THEN LET k == AfterSpaces(s, i + 3)
                     c == IF k <= Len(s) /\ s[k] = "/" THEN k + 1 ELSE k
                 IN  IF c <= Len(s) /\ s[c] = ">" THEN c ELSE 0
            ELSE 0
      [] re = "RE_P_CLOSE" ->
            IF StartsWithI(s, i, <<"<", "/", "p">>)
            THEN LET c == AfterSpaces(s, i + 3) IN IF c <= Len(s) /\ s[c] = ">" THEN c ELSE 0
            ELSE 0
      [] re = "RE_P_OPEN" ->
            IF StartsWithI(s, i, <<"<", "p">>) THEN FirstClose(s, i + 2) ELSE 0
      [] re = "RE_TAG" ->
            IF s[i] = "<" /\ FirstClose(s, i + 1) >= i + 2 THEN FirstClose(s, i + 1) ELSE 0
      [] re = "RE_URL" ->
            LET from == IF StartsWith(s, i, <<"h", "t", "t", "p", "s", ":", "/", "/">>) THEN i + 8
                        ELSE IF StartsWith(s, i, <<"h", "t", "t", "p", ":", "/", "/">>) THEN i + 7
                        ELSE 0
            IN  IF from > 0 /\ from <= Len(s) /\ ~IsSpace(s[from]) THEN EndOfRun(s, from) ELSE 0

\* re.sub(" ", t): every match, from the left, becomes one blank.
RECURSIVE SubRe(_, _)
SubRe(re, s) ==
    LET starts == {i \in 1..Len(s) : MatchEnd(re, s, i) > 0} IN
    IF starts = {} THEN s
    ELSE LET i == Min(starts) IN
         SubSeq(s, 1, i - 1) \o <<" ">> \o SubRe(re, SubSeq(s, MatchEnd(re, s, i) + 1, Len(s)))

\* The character references the texts use, with the character each stands
\* for; html.unescape takes them with or without the closing ";".
Entities == <<
    [name |-> <<"a", "m", "p">>, char |-> "&"],
    [name |-> <<"l", "t">>, char |-> "<"],
    [name |-> <<"g", "t">>, char |-> ">"],
    [name |-> <<"n", "b", "s", "p">>, char |-> Nbsp]>>

\* html.unescape: one pass from the left, what a reference yields is not
\* looked at again.
RECURSIVE Unescape(_)
Unescape(s) ==
    LET amps == {i \in 1..Len(s) :
                    s[i] = "&" /\ \E k \in DOMAIN Entities : StartsWith(s, i + 1, Entities[k].name)}
    IN  IF amps = {} THEN s
        ELSE LET i == Min(amps)
                 e == Entities[Min({k \in DOMAIN Entities : StartsWith(s, i + 1, Entities[k].name)})]
                 after == i + Len(e.name) + 1
                 next == IF after <= Len(s) /\ s[after] = ";" THEN after + 1 ELSE after
             IN  SubSeq(s, 1, i - 1) \o <<e.char>> \o Unescape(SubSeq(s, next, Len(s)))

BLACKLIST == <<
    <<"L", "e", "i", "a", " ", "m", "a", "i", "s">>,
    <<"V", "e", "j", "a", " ", "m", "a", "i", "s">>,
    <<"V", "Í", "D", "E", "O", "S", ":">>,
    <<"V", "e", "j", "a", " ", "o", "s", " ", "v", "í", "d", "e", "o", "s">>,
    <<"S", "i", "g", "a", " ", "o", " ", "c", "a", "n", "a", "l">>,
    <<"C", "l", "i", "q", "u", "e", " ", "a", "q", "u", "i">>,
    <<"P", "a", "r", "t", "i", "c", "i", "p", "e", " ", "d", "o", " ", "c", "a", "n", "a", "l">>,
    <<"R", "e", "c", "e", "b", "a", " ", "a", "s", " ", "n", "o", "t", "í", "c", "i", "a", "s">>,
    <<"T", "h", "e", " ", "p", "o", "s", "t">>,
    <<"a", "p", "p", "e", "a", "r", "e", "d", " ", "f", "i", "r", "s", "t", " ", "o", "n">>,
    <<"L", "e", "i", "a", " ", "a", " ", "í", "n", "t", "e", "g", "r", "a">>,
    <<"L", "e", "i", "a", " ", "a", " ", "n", "o", "t", "a">>,
    <<"A", "s", "s", "i", "s", "t", "a">>,
    <<"A", "O", " ", "V", "I", "V", "O">>
>>

\* t.replace(b, " "): every occurrence of b, from the left, becomes a blank.
RECURSIVE Replace(_, _)
Replace(t, b) ==
    LET at == {i \in 1..Len(t) : StartsWith(t, i, b)} IN
    IF at = {} THEN t
    ELSE SubSeq(t, 1, Min(at) - 1) \o <<" ">> \o Replace(SubSeq(t, Min(at) + Len(b), Len(t)), b)

\* for b in BLACKLIST: if b in t: t = t.replace(b, " ")
RECURSIVE ReplaceBlacklist(_, _)
ReplaceBlacklist(t, k) ==
    IF k > Len(BLACKLIST) THEN t ELSE ReplaceBlacklist(Replace(t, BLACKLIST[k]), k + 1)

\* strip_html: tags out (images, line breaks, paragraphs, any tag), then the
\* references resolved, then URLs out, then the phrases of BLACKLIST out,
\* then white space collapsed and trimmed.
strip_html(text) ==
    LET t1 == SubRe("RE_TAG", SubRe("RE_P_OPEN", SubRe("RE_P_CLOSE", SubRe("RE_BR", SubRe("RE_IMG", text)))))
        t2 == SubRe("RE_URL", Unescape(t1))
    IN  Strip(SubSpaces(ReplaceBlacklist(t2, 1)))

\* str.rsplit(" ", 1)[0]: the text before its last blank, whole without one
BeforeLastBlank(t) ==
    LET blanks == {j \in 1..Len(t) : t[j] = " "}
    IN  IF blanks = {} THEN t ELSE SubSeq(t, 1, Max(blanks) - 1)

\* The cut of summarize, t being the stripped text.
Shorten(t, max_chars) ==
    IF Len(t) <= max_chars THEN t
    ELSE RStrip(BeforeLastBlank(SubSeq(t, 1, max_chars)), {" ", ",", ";", ":"}) \o <<Ellipsis>>

\* summarize(text, max_chars)
summarize(text, max_chars) == Shorten(strip_html(text), max_chars)

\* ---------------------------------- one call of strip_html or of summarize
\* The pieces the texts are made of: a tag, character references, words of a
\* BLACKLIST phrase, a URL, a blank.
TextPieces == {
    <<"<", "b", ">">>,
    <<"&", "l", "t", ";">>,
    <<"&", "g", "t", ";">>,
    <<"&", "a", "m", "p", ";">>,
    <<"l", "t", ";">>,
    <<"b">>,
    <<" ">>,
    <<"L", "e", "i", "a">>,
    <<"m", "a", "i", "s">>,
    <<"h", "t", "t", "p", ":", "/", "/", "a">>}

RECURSIVE Concat(_)
Concat(pieces) == IF pieces = <<>> THEN <<>> ELSE Head(pieces) \o Concat(Tail(pieces))

Texts == UNION {{Concat(w) : w \in [1..n -> TextPieces]} : n \in 0..MaxPieces}

\* max_chars as the callers of summarize may pass it
MaxCharsGiven == {2, 5}

TextCalls ==
    [fn : {"strip_html"}, text : Texts]
    \cup [fn : {"summarize"}, text : Texts, max_chars : MaxCharsGiven]

InitText ==
    /\ CacheIdle /\ FeedIdle
    /\ call \in TextCalls
    /\ result = Pending

StripHtml ==
    /\ call.fn = "strip_html"
    /\ ~result.done
    /\ result' = [done |-> TRUE] @@ Returned(strip_html(call.text))
    /\ UNCHANGED <<call, vars, feedVars>>

Summarize ==
    /\ call.fn = "summarize"
    /\ ~result.done
    /\ result' = [done |-> TRUE] @@ Returned(summarize(call.text, call.max_chars))
    /\ UNCHANGED <<call, vars, feedVars>>

NextText == StripHtml \/ Summarize

SpecText == InitText /\ [][NextText]_allVars

\* ------------------------------------------ one call of _build_cache_from_feeds
\* _get(entry, "link", "url", "href", default=""): the entries of a feed have
\* none of "url" and "href", so it is their "link" field.
StoredLink(entry) == entry.link

SemTitulo == <<"(", "s", "e", "m", " ", "t", "í", "t", "u", "l", "o", ")">>

\* normalize_entry; "fonte" is empty for the entries of a feed, which have
\* none of the keys it is read from, and "hora" (the time of day of ts as
\* shown on the page) is left out.
\* a or b of Python, on texts
OrElse(a, b) == IF a # <<>> THEN a ELSE b

normalize_entry(entry) ==
    LET titulo_raw == IF entry.title # <<>> THEN entry.title ELSE SemTitulo
    IN  [titulo |-> OrElse(summarize(titulo_raw, 140), SemTitulo),
         link |-> StoredLink(entry),
         fonte |-> <<>>,
         resumo |-> summarize(entry.summary, 320),
         ts |-> entry_ts(entry)]

\* normalize_list(entries, limit): the loop, with out and seen so far
RECURSIVE NormalizeFrom(_, _, _, _)
RECURSIVE NormalizeStep(_, _, _, _, _)
NormalizeFrom(entries, limit, out, seen) ==
    IF entries = <<>> THEN out
    ELSE NormalizeStep(Tail(entries), limit, out, seen, normalize_entry(Head(entries)))
\* One turn of the loop, n being the normalized entry: skipped when its
\* (titulo, link) was seen, else appended, and the loop ends at the limit.
NormalizeStep(rest, limit, out, seen, n) ==
    IF <<n.titulo, n.link>> \in seen THEN NormalizeFrom(rest, limit, out, seen)
    ELSE IF Len(out) + 1 >= limit THEN Append(out, n)
    ELSE NormalizeFrom(rest, limit, Append(out, n), seen \cup {<<n.titulo, n.link>>})
normalize_list(entries, limit) == NormalizeFrom(entries, limit, <<>>, {})

\* limites = dict(LIMITES_PADRAO); the latest topic gets 100 at least
BuildLimitesOf(padrao) ==
    IF "Ultimas" \in Range(FeedTemas)
    THEN [t \in DOMAIN padrao \cup {"Ultimas"} |->
            IF t = "Ultimas"
            THEN (IF t \in DOMAIN padrao /\ padrao[t] > 100 THEN padrao[t] ELSE 100)
            ELSE padrao[t]]
    ELSE padrao

\* keep = 140 if tema == "Ultimas" else 120
Keep(tema) == IF tema = "Ultimas" THEN 140 ELSE 120

\* entries.sort(key=entry_ts, reverse=True); normalize_list(entries, limit=keep)
NormalizeBucket(tema, entries) ==
    normalize_list(SortDesc(entries, [i \in 1..Len(entries) |-> entry_ts(entries[i])]), Keep(tema))

\* for tema, entries in buckets_raw.items(): ...; then the return, stamped
NormalizeAll(raw, clock) ==
    IF raw.raised THEN Raised
    ELSE Returned([updated_at |-> _now_iso(clock),
                   buckets |-> [t \in DOMAIN raw.value |-> NormalizeBucket(t, raw.value[t])]])

\* The snapshot _build_cache_from_feeds returns at second clock, given the
\* limits configured in LIMITES_PADRAO and what the network does.
BuildSnapshot(padrao, net, clock) ==
    NormalizeAll(coletar_noticias_por_tema(BuildLimitesOf(padrao), net), clock)

\* Two entries of an Atom feed that point to the same page ("link") and
\* whose first alternate link is a document of their own.
News_Doc1 ==
    RawEntry(<<[rel |-> "alternate", href |-> "https://a/7.pdf"]>>,
             "https://a/3", Text_SELIC, <<>>, 630, 0)
News_Doc2 ==
    RawEntry(<<[rel |-> "alternate", href |-> "https://a/8.pdf"]>>,
             "https://a/3", Text_mercado, <<>>, 615, 0)

SnapshotBodies == {<<News_0900, News_1000>>, <<News_0930, News_Tie>>, <<News_Doc2, News_Doc1>>}
SnapshotOutcomes ==
    [kind : {"get_raises"}, entries : {<<>>}] \cup [kind : {"xml"}, entries : SnapshotBodies]

\* The configurations of LIMITES_PADRAO: the one of the repository, and one
\* with limits of 1.
SnapshotLimites == {LIMITES_PADRAO, ("Esporte" :> 1) @@ ("Economia" :> 1) @@ ("Ultimas" :> 1)}

InitSnapshot ==
    /\ CacheIdle /\ FeedIdle
    /\ call \in [fn : {"_build_cache_from_feeds"}, padrao : SnapshotLimites,
                 net : [BuildUrls -> SnapshotOutcomes]]
    /\ result = Pending

BuildCacheFromFeeds ==
    /\ call.fn = "_build_cache_from_feeds"
    /\ ~result.done
    /\ result' = [done |-> TRUE] @@ BuildSnapshot(call.padrao, call.net, now)
    /\ UNCHANGED <<call, vars, feedVars>>

NextSnapshot == BuildCacheFromFeeds

SpecSnapshot == InitSnapshot /\ [][NextSnapshot]_allVars

\* ====================================== the section cache, fairly scheduled
\* Variant: no finally blocks, the exception ends the thread at once.
OnBuildErrorNoFinally == "raised"

\* try: refresh_cache_sync() finally: _REFRESHING = False, inside
\* try: ... finally: _REFRESH_LOCK.release(): an exception runs both.
OnBuildError == "bg_finally"

\* data = _build_cache_from_feeds() raises (nothing inside it catches what
\* coletar_noticias_por_tema, entries.sort or normalize_list raise): no
\* snapshot is made; the exception leaves refresh_cache_sync, then runs the
\* finally blocks of refresh_cache_background or ends the serving thread.
BuildRaise(p) ==
    /\ pc[p] = "building"
    /\ Move(p, IF p \in BgIds THEN OnBuildError ELSE "raised")
    /\ UNCHANGED <<locals, disk, refreshLock, refreshing, now>>
    /\ UNCHANGED <<feedVars, callVars>>

\* The guard of refresh_cache_background is looked at where it works: page
\* requests over a snapshot that is there and stale, each of which starts a
\* background thread.  No /refresh call and no cold start.
InitGuard == Init /\ file = JsonFile(SeedSnapshot)

NextGuard ==
    \/ Tick
    \/ \E r \in ReqIds : GetBucketsRead(r)
    \/ \E r \in ReqIds : GetBucketsDecide(r)
    \/ \E b \in BgIds : BgAcquire(b)
    \/ \E b \in BgIds : BgSet(b)
    \/ \E b \in BgIds : BuildFinish(b)
    \/ \E b \in BgIds : BuildRaise(b)
    \/ \E b \in BgIds : WriteDump(b)
    \/ \E b \in BgIds : WriteReplace(b)
    \/ \E b \in BgIds : WriteExcept(b)
    \/ \E b \in BgIds : BgFinally(b)
    \/ \E b \in BgIds : BgRelease(b)

\* The steps of a thread inside refresh_cache_sync.
SyncStep(p) ==
    \/ BuildFinish(p)
    \/ BuildRaise(p)
    \/ WriteDump(p)
    \/ WriteReplace(p)
    \/ WriteExcept(p)

\* The steps of a serving thread once its request has arrived.
RequestStep(r) ==
    \/ GetBucketsDecide(r)
    \/ GetBucketsReread(r)
    \/ SyncStep(r)
    \/ ManualReport(r)

\* The steps of a started thread that runs refresh_cache_background.
BackgroundStep(b) ==
    \/ BgAcquire(b)
    \/ BgSet(b)
    \/ SyncStep(b)
    \/ BgFinally(b)
    \/ BgRelease(b)

\* Every started thread is scheduled again and again (the operating system's
\* scheduler under the interpreter lock) and the feeds are fetched with a
\* timeout; requests arrive or not, and the clock advances or not.
FairThreads ==
    /\ \A r \in ReqIds : WF_vars(RequestStep(r))
    /\ \A b \in BgIds : WF_vars(BackgroundStep(b))

SpecGuard == InitGuard /\ [][NextGuard]_vars /\ FairThreads

\* --------------------------------------- revalidation when nothing fails
\* json.dump succeeds: the temp file holds the snapshot.
WriteDumpOk(p) == WriteDump(p) /\ pc'[p] = "w_replace"

\* os.replace succeeds: the temp file has become CACHE_FILE.
WriteReplaceOk(p) == WriteReplace(p) /\ pc'[p] = AfterSync(p)

\* The section cache when every _build_cache_from_feeds returns (the feeds
\* answer or time out) and every _write_cache_file succeeds.
NextRevalidate ==
    \/ Tick
    \/ \E r \in ReqIds : GetBucketsRead(r)
    \/ \E r \in ReqIds : GetBucketsDecide(r)
    \/ \E r \in ReqIds : GetBucketsReread(r)
    \/ \E p \in Procs : BuildFinish(p)
    \/ \E p \in Procs : WriteDumpOk(p)
    \/ \E p \in Procs : WriteReplaceOk(p)
    \/ \E b \in BgIds : BgAcquire(b)
    \/ \E b \in BgIds : BgSet(b)
    \/ \E b \in BgIds : BgFinally(b)
    \/ \E b \in BgIds : BgRelease(b)
    \/ \E m \in ReqIds : ManualStart(m)
    \/ \E m \in ReqIds : ManualReport(m)

SpecRevalidate == Init /\ [][NextRevalidate]_vars /\ FairThreads

\* ------------------------------------- the cache while the feeds hold entries
\* get_buckets_cached tests the buckets dict for emptiness only (not buckets),
\* and nothing else in the cache code looks into a bucket list: what a build
\* collected never decides a branch.  The properties of locking, staleness and
\* the file are explored with builds that collected entries; Spec also has the
\* builds that collected nothing.
BuildFinishFed(p) == BuildFinish(p) /\ snap'[p].buckets = BuildBuckets(TRUE)

NextFed ==
    \/ Tick
    \/ \E r \in ReqIds : GetBucketsRead(r)
    \/ \E r \in ReqIds : GetBucketsDecide(r)
    \/ \E r \in ReqIds : GetBucketsReread(r)
    \/ \E p \in Procs : BuildFinishFed(p)
    \/ \E p \in Procs : WriteDump(p)
    \/ \E p \in Procs : WriteReplace(p)
    \/ \E p \in Procs : WriteExcept(p)
    \/ \E b \in BgIds : BgAcquire(b)
    \/ \E b \in BgIds : BgSet(b)
    \/ \E b \in BgIds : BgFinally(b)
    \/ \E b \in BgIds : BgRelease(b)
    \/ \E m \in ReqIds : ManualStart(m)
    \/ \E m \in ReqIds : ManualReport(m)

SpecFed == Init /\ [][NextFed]_vars

\* =================================================================== claims
PageDone(r) == route[r] = "page" /\ pc[r] = "done"
WarmDone(r) == PageDone(r) /\ ~IsCold(first[r])
ColdDone(r) == PageDone(r) /\ IsCold(first[r])
Clock == StartClock..(StartClock + MaxTicks)
\* p is the <<buckets, updated_at>> of a snapshot some rebuild has produced.
IsBuiltSnapshot(p) ==
    /\ p.updated_at.secs \in Clock
    /\ \E g \in BOOLEAN : p = Pair(_build_cache_from_feeds(g, p.updated_at.secs))
\* A background thread that has entered the rebuild (now or earlier).
RanRebuild(b) ==
    \/ pc[b] \in SyncPcs \cup {"bg_finally", "rebuilt"}
    \/ pc[b] = "bg_release" /\ ~refreshing
Rebuilding == {b \in BgIds : pc[b] \in SyncPcs}

\* C1: a page request that read a snapshot stamped by a rebuild at most
\* CACHE_TTL seconds before now (so at most CACHE_TTL seconds before the
\* request, the clock never going back) returned the buckets it read and
\* started no background thread.
C1_WarmFreshNoRebuild ==
    \A r \in ReqIds :
        (/\ WarmDone(r)
         /\ first[r].updated_at = _now_iso(first[r].updated_at.secs)
         /\ now - first[r].updated_at.secs <= CACHE_TTL)
        => ret[r] = first[r] /\ pc[Bg(r)] = "idle"

\* C2: a page request that read a warm snapshot never enters the rebuild
\* itself and returns exactly the pair it read; the rebuild of a stale snapshot is
\* left to the request's background thread, which runs only once the request
\* has its answer, and is started whenever the snapshot was stale even at the
\* start of the clock.
C2_StaleWhileRevalidate ==
    \A r \in ReqIds :
        /\ (route[r] = "page" /\ pc[r] # "r_decide" /\ ~IsCold(first[r]))
            => pc[r] = "done" /\ ret[r] = first[r] /\ ~Built(r)
        /\ (route[r] = "page" /\ pc[r] = "r_decide") => ~Built(r)
        /\ pc[Bg(r)] # "idle" => WarmDone(r) /\ ret[r] = first[r]
        /\ (WarmDone(r) /\ IsStale(first[r], StartClock)) => pc[Bg(r)] # "idle"

\* The seed snapshot, older than CACHE_TTL, has been returned by a request
\* whose background thread is now rebuilding.
C2_Witness ==
    \E r \in ReqIds :
        /\ WarmDone(r) /\ first[r] = Pair(SeedSnapshot) /\ ret[r] = first[r]
        /\ now - SeedSnapshot.updated_at.secs > CACHE_TTL
        /\ pc[Bg(r)] = "building"

\* C3 as stated: when all the requests that started a background thread had
\* read the same snapshot, at most one of these threads ever runs the rebuild.
C3_ExactlyOneRefresh ==
    (\A r1, r2 \in ReqIds :
        (pc[Bg(r1)] # "idle" /\ pc[Bg(r2)] # "idle") => first[r1] = first[r2])
    => Cardinality({b \in BgIds : RanRebuild(b)}) <= 1

\* C3 as amended: every stale request returns the data it read and starts one
\* background thread; never two of these threads rebuild at once, and once all
\* the started threads have ended at least one of them has run the rebuild.
C3_OneAtATimeAtLeastOne ==
    /\ \A r \in ReqIds : pc[Bg(r)] # "idle" => WarmDone(r) /\ ret[r] = first[r]
    /\ Cardinality(Rebuilding) <= 1
    /\ ((\E b \in BgIds : pc[b] # "idle")
        /\ (\A b \in BgIds : pc[b] \in {"idle", "rebuilt", "dropped", "skipped"}))
       => \E b \in BgIds : pc[b] = "rebuilt"

\* Two requests read the same stale snapshot, and both background threads
\* have ended: one rebuilt, the other was dropped or rebuilt as well.
C3_Witness ==
    \E r1, r2 \in ReqIds :
        /\ r1 # r2 /\ first[r1] = first[r2] /\ WarmDone(r1) /\ WarmDone(r2)
        /\ pc[Bg(r1)] = "rebuilt" /\ pc[Bg(r2)] \in {"rebuilt", "dropped"}

\* C4: at most one background thread is inside refresh_cache_sync, and it is
\* the holder of _REFRESH_LOCK.
C4_OneBackgroundRebuild ==
    /\ Cardinality(Rebuilding) <= 1
    /\ \A b \in Rebuilding : refreshLock = b /\ refreshing

\* One background thread rebuilds after another was turned away by the lock.
C4_Witness ==
    \E b1, b2 \in BgIds : pc[b1] \in SyncPcs /\ pc[b2] = "dropped"

\* C5: the snapshot file is never cut short: it is missing, the unparsable
\* file found at start, or one complete snapshot; the writers are in the file
\* write only while they hold _CACHE_LOCK, one at a time, and what every
\* request has read is the empty snapshot or one complete snapshot.
C5_NoPartialSnapshot ==
    /\ file.kind \in {"missing", "corrupt", "json"}
    /\ file.kind = "json" => file.data = SeedSnapshot \/ IsBuiltSnapshot(Pair(file.data))
    /\ \A p \in Procs : pc[p] \in {"w_replace", "w_except"} <=> cacheLock = p
    /\ \A r \in ReqIds :
        /\ first[r] \in {Pair(EmptySnapshot), Pair(SeedSnapshot)} \/ IsBuiltSnapshot(first[r])
        /\ ret[r] \in {Pair(EmptySnapshot), Pair(SeedSnapshot)} \/ IsBuiltSnapshot(ret[r])

\* A writer holds the complete temp file of a new snapshot, the file still
\* holds the previous one, and a reader waits for the lock.
C5_Witness ==
    \E p \in Procs, r \in ReqIds :
        /\ pc[p] = "w_replace" /\ tmp.kind = "json"
        /\ file.kind = "json" /\ file.data # tmp.data
        /\ pc[r] \in {"idle", "rr_lock"}

C7_ColdReturnsOwnRebuild ==
    [][\A r \in ReqIds :
        (pc[r] = "rr_lock" /\ pc'[r] = "done") => ret'[r] = Pair(snap[r])]_vars

\* A cold request has built a snapshot, could not write it, and has returned
\* the empty snapshot it read back from a file that is still missing.
C7_Witness ==
    \E r \in ReqIds :
        ColdDone(r) /\ ret[r] = Pair(EmptySnapshot) /\ file.kind = "missing"

C9_ReportsSnapshotStamp ==
    [][\A m \in ReqIds :
        (pc[m] = "report" /\ pc'[m] = "done") => rep'[m] = snap[m].updated_at]_vars

\* C10: _CACHE_LOCK is held only by a thread inside the file write, never by
\* one that is building; so whenever no thread is inside a file write, the
\* next request to arrive can read at once, whoever is building.
C10_BuildHoldsNoLock ==
    /\ cacheLock # NoThread => pc[cacheLock] \in {"w_replace", "w_except"}
    /\ \A p \in Procs : pc[p] = "building" => cacheLock # p
    /\ (\A p \in Procs : pc[p] \notin {"w_replace", "w_except"})
        => \A r \in ReqIds : (pc[r] = "idle" /\ NextToArrive(r)) => ENABLED GetBucketsRead(r)

\* A request can read while a background thread is building on behalf of
\* another request.
C10_Witness ==
    \E b \in BgIds, r \in ReqIds :
        pc[b] = "building" /\ pc[r] = "idle" /\ ENABLED GetBucketsRead(r)

\* ------------------------------------------------------------ feed fetcher
\* Caller c has called carregar_feed in this step (a call that returns the
\* value its caller already held, for the same URL, changes nothing).
Called(c) ==
    /\ fpc[c] # "fetching"
    /\ <<fpc[c], furl[c], fret[c]>> # <<fpc'[c], furl'[c], fret'[c]>>

\* C11: a call of carregar_feed(url) made while _FEED_CACHE holds an entry for
\* url that is less than the TTL old returns the cached parsed feed, issues no
\* network request and leaves _FEED_CACHE as it was.
C11_CacheHitReturnsCached ==
    [][\A c \in Callers :
        (/\ Called(c)
         /\ _FEED_CACHE[furl'[c]].has
         /\ feedNow - _FEED_CACHE[furl'[c]].ts < JC_CACHE_TTL)
        => /\ fpc'[c] = "returned"
           /\ fret'[c] = [via |-> "cache", value |-> _FEED_CACHE[furl'[c]].parsed]
           /\ _FEED_CACHE' = _FEED_CACHE
           /\ gets' = gets
      ]_allVars

\* A parsed feed with an entry has been returned from the cache, one second
\* before its TTL is reached.
C11_Witness ==
    \E c \in Callers :
        /\ fpc[c] = "returned" /\ fret[c].via = "cache"
        /\ fret[c].value = Parsed(<<"a">>)
        /\ feedNow - _FEED_CACHE[furl[c]].ts = JC_CACHE_TTL - 1

\* C12: carregar_feed never raises; a fetch that fails returns the result with
\* an empty entries list and stores it, timestamped now, under its URL; and a
\* call made while the stored result of a failure is at most the TTL old
\* returns that empty result without a network request.
C12_FailureIsCachedEmpty ==
    /\ [](\A c \in Callers : fpc[c] # "raised")
    /\ [][\A c \in Callers :
            /\ (fpc[c] = "fetching" /\ fpc'[c] # "fetching" /\ fret'[c].via # "fetch")
                => /\ fpc'[c] = "returned"
                   /\ fret'[c].via = "failure"
                   /\ fret'[c].value.entries = <<>>
                   /\ _FEED_CACHE'[furl[c]] = Entry(feedNow, fret'[c].value)
            /\ (/\ Called(c)
                /\ _FEED_CACHE[furl'[c]] = Entry(_FEED_CACHE[furl'[c]].ts, EmptyResult)
                /\ feedNow - _FEED_CACHE[furl'[c]].ts <= JC_CACHE_TTL)
                => /\ fret'[c] = [via |-> "cache", value |-> EmptyResult]
                   /\ gets' = gets
       ]_allVars

\* The empty result of a failed fetch has been returned from the cache, some
\* time after the failure and with no further request to the URL.
C12_Witness ==
    \E c \in Callers :
        /\ fpc[c] = "returned" /\ fret[c] = [via |-> "cache", value |-> EmptyResult]
        /\ feedNow > _FEED_CACHE[furl[c]].ts
        /\ gets[furl[c]] = 1

\* --------------------------------------------------------------- collector
\* A call of _coletar_de_feeds has returned.
Collected == call.fn = "_coletar_de_feeds" /\ result.done /\ ~result.raised
Out == result.value
RawIn == Discovered(call.net, FeedList)
\* What the same call returns when no limit is given.
Unlimited == _coletar_de_feeds(call.tema, FeedList, NoLimit, call.net).value
WithLink(list, link) == {k \in 1..Len(list) : list[k].jc_link = link}
\* Pairs of raw entries with one and the same title and (non-empty) link.
Twins ==
    {p \in (1..Len(RawIn)) \X (1..Len(RawIn)) :
        /\ p[1] < p[2]
        /\ RawIn[p[1]].title = RawIn[p[2]].title
        /\ entry_link(RawIn[p[1]]) = entry_link(RawIn[p[2]])
        /\ entry_link(RawIn[p[1]]) # ""}
NoTwoShareLink == \A i, j \in 1..Len(Out) : Out[i].jc_link = Out[j].jc_link => i = j
NotCut == ~Truthy(call.limite_total) \/ call.limite_total[1] >= Len(Unlimited)

\* C16 as stated: in an unfiltered topic the returned list has at most one
\* entry per link, and two raw entries with the same title and the same
\* non-empty link yield exactly one entry of the returned list.
C16_ExactlyOnePerTwin ==
    (Collected /\ call.tema # "Economia")
    => /\ NoTwoShareLink
       /\ \A p \in Twins : Cardinality(WithLink(Out, entry_link(RawIn[p[1]]))) = 1

\* C16 as amended: in an unfiltered topic the returned list has at most one
\* entry per link; two raw entries with the same title and the same non-empty
\* link yield exactly one entry of the list before the limit is applied, and
\* so exactly one entry of the returned list when the limit cuts nothing off,
\* at most one otherwise.
C16_OnePerLinkBeforeCut ==
    (Collected /\ call.tema # "Economia")
    => /\ NoTwoShareLink
       /\ \A p \in Twins :
            LET link == entry_link(RawIn[p[1]]) IN
            /\ Cardinality(WithLink(Unlimited, link)) = 1
            /\ Cardinality(WithLink(Out, link)) <= 1
            /\ NotCut => Cardinality(WithLink(Out, link)) = 1

\* The same entry came in both feeds of an unfiltered topic, and the list
\* returned under a limit of 10 holds it once.
C16_Witness ==
    /\ Collected /\ call.tema = "Esporte" /\ call.limite_total = Limit(10)
    /\ call.net = Net(<<News_1000, News_0900>>, <<News_0900>>)
    /\ Cardinality(WithLink(Out, entry_link(News_0900))) = 1

\* The place of a returned entry in the discovery order.
RawOf(e) ==
    RawEntry(e.links, e.link, e.title, e.summary, e.published_parsed, e.updated_parsed)
DiscoveredAt(e) == Min({k \in 1..Len(RawIn) : RawIn[k] = RawOf(e)})

\* C17: the returned list is in descending order of timestamp, and entries of
\* equal timestamp are in their discovery order.
C17_SortedDescStable ==
    Collected =>
        \A i, j \in 1..Len(Out) :
            i < j => /\ Out[i].jc_ts >= Out[j].jc_ts
                     /\ Out[i].jc_ts = Out[j].jc_ts => DiscoveredAt(Out[i]) < DiscoveredAt(Out[j])

\* Two entries of the same time, the first from the first feed and the second
\* from the second feed, are returned in that order after a newer entry that
\* was discovered last.
C17_Witness ==
    /\ Collected
    /\ call.net = Net(<<News_0900>>, <<News_Tie, News_1000>>) /\ call.tema = "Esporte"
    /\ [i \in 1..Len(Out) |-> Out[i].jc_link] = <<"https://a/1", "https://a/2", "https://a/5">>

Times(list) == [i \in 1..Len(list) |-> list[i].jc_ts]
Links(list) == {list[i].jc_link : i \in 1..Len(list)}

\* C18: with a positive limit the returned list is the first limit entries of
\* the list returned without limit, none of the entries left out being more
\* recent than a returned one; with None or 0 (to which a configured limit of
\* 0 is mapped) it is the whole list, which in an unfiltered topic holds
\* every link of the feeds.
C18_CutToLimit ==
    /\ LimiteTotal(0) = NoLimit
    /\ Collected =>
        /\ IF Truthy(call.limite_total) /\ call.limite_total[1] > 0
           THEN LET n == call.limite_total[1] IN
                /\ Out = SubSeq(Unlimited, 1, IF n < Len(Unlimited) THEN n ELSE Len(Unlimited))
                /\ \A i \in 1..Len(Out), k \in 1..Len(Unlimited) :
                        k > n => Unlimited[k].jc_ts <= Out[i].jc_ts
           ELSE Out = Unlimited
        /\ call.tema # "Economia"
            => Links(Unlimited) = {entry_link(RawIn[k]) : k \in 1..Len(RawIn)} \ {""}

\* Of three entries with different links, the limit of 1 has kept the most
\* recent one, which was discovered last.
C18_Witness ==
    /\ Collected /\ call.limite_total = Limit(1)
    /\ call.net = Net(<<News_0900, News_Tie>>, <<News_1000>>) /\ call.tema = "Esporte"
    /\ Times(Out) = <<600>>

\* The scenario of C20: feed A holds entries of 10:00 and 09:00, feed B one
\* entry of 09:30 with the link of the 09:00 entry, every entry is admitted by
\* the topic, and the limit is 10.
EndToEnd ==
    LET a == FeedEntries(call.net, FeedList[1])
        b == FeedEntries(call.net, FeedList[2])
    IN  /\ call.limite_total = Limit(10)
        /\ Len(a) = 2 /\ Len(b) = 1
        /\ entry_ts(a[1]) = 600 /\ entry_ts(a[2]) = 540 /\ entry_ts(b[1]) = 570
        /\ entry_link(b[1]) = entry_link(a[2])
        /\ entry_link(a[2]) \notin {"", entry_link(a[1])}
        /\ call.tema = "Economia" =>
            \A e \in {a[1], a[2], b[1]} : _match_economia(e.title, entry_summary(e))

\* C20 as stated: the bucket collected in the scenario is [10:00, 09:30].
C20_KeepsLaterDuplicate ==
    (Collected /\ EndToEnd) => Times(Out) = <<600, 570>>

\* C20 as amended: the bucket collected in the scenario is [10:00, 09:00], of
\* length 2: the 09:30 entry of feed B is dropped because its link was seen
\* in feed A.
C20_KeepsFirstSeen ==
    (Collected /\ EndToEnd)
    => /\ Times(Out) = <<600, 540>>
       /\ Len(Out) = 2
       /\ Out[2].jc_link = entry_link(FeedEntries(call.net, FeedList[1])[2])

\* The scenario has been collected.
C20_Witness ==
    /\ Collected /\ EndToEnd
    /\ call.net = Net(<<News_1000, News_0900>>, <<News_0930>>)

Collections == call.fn = "coletar_noticias_por_tema" /\ result.done
Fails(net, url) == net[url].kind \in Failures
\* The network in which the failing URLs outside the list of tema serve a
\* feed instead.
NoFailureElsewhere(net, tema, body) ==
    [u \in BuildUrls |->
        IF Fails(net, u) /\ u \notin Range(FEEDS_BY_TEMA[tema])
        THEN [kind |-> "xml", entries |-> body] ELSE net[u]]
\* The network in which the failing URLs serve a feed without entries.
FailuresAsEmptyFeeds(net) ==
    [u \in BuildUrls |-> IF Fails(net, u) THEN [kind |-> "xml", entries |-> <<>>] ELSE net[u]]

\* C13: a rebuild's collection raises nothing whatever URLs fail and returns
\* one bucket a configured topic; each bucket is the one collected when the
\* failing URLs serve feeds without entries (so the other URLs of the topic
\* contribute as usual), is empty when every URL of the topic fails, and is
\* the one built when no URL outside the topic's list fails.
C13_FailureIsolation ==
    Collections =>
        /\ ~result.raised
        /\ DOMAIN result.value = Range(FeedTemas)
        /\ result.value = coletar_noticias_por_tema(call.limites, FailuresAsEmptyFeeds(call.net)).value
        /\ \A tema \in Range(FeedTemas) :
            /\ (\A u \in Range(FEEDS_BY_TEMA[tema]) : Fails(call.net, u)) => result.value[tema] = <<>>
            /\ \A body \in BuildBodies :
                result.value[tema] =
                    coletar_noticias_por_tema(call.limites,
                        NoFailureElsewhere(call.net, tema, body)).value[tema]

\* Every feed of the economy topic has failed, one of them being a feed of
\* the latest topic too; the economy bucket is there and empty, the latest
\* bucket holds the entries of its other feed and the sport bucket its own.
C13_Witness ==
    /\ Collections
    /\ \A u \in Range(FeedList) : Fails(call.net, u)
    /\ result.value["Economia"] = <<>>
    /\ Len(result.value["Ultimas"]) = 2
    /\ Len(result.value["Esporte"]) = 2

Served == call.fn = "get_section_cached" /\ result.done
NoTopic == Served /\ call.tema_label = NoLabel
General == _tema_geral_label(call.temas)
\* What is served of a list of stored entries under the limit of the call.
ServedOf(entries) ==
    LET noticias == Noticias(entries, call.limit)
    IN  [i \in 1..Len(noticias) |-> PopTs(noticias[i])]
\* The first non-empty bucket in the order of the configured topics, the
\* empty list when there is none.
Fallback ==
    LET nonEmpty == {i \in DOMAIN call.temas : BucketOf(call.buckets, call.temas[i]) # <<>>}
    IN  IF nonEmpty = {} THEN <<>> ELSE call.buckets[call.temas[Min(nonEmpty)]]

\* C14 as stated: without a topic, the entries of the general topic are
\* returned whenever a general topic is configured, and the first non-empty
\* bucket in the order of the configured topics only when none is.
C14_GeneralWheneverConfigured ==
    NoTopic =>
        result.value.noticias =
            ServedOf(IF General # NoLabel THEN BucketOf(call.buckets, General) ELSE Fallback)

\* C14 as amended: without a topic, the entries of the general topic are
\* returned when a general topic is configured and its bucket in the snapshot
\* has entries; when no general topic is configured, or its bucket is empty
\* or missing, the entries of the first non-empty bucket in the order of the
\* configured topics are returned (none when every bucket is empty).
C14_GeneralWhenNotEmpty ==
    NoTopic =>
        /\ result.value.titulo = "Geral"
        /\ result.value.noticias =
            ServedOf(IF General # NoLabel /\ BucketOf(call.buckets, General) # <<>>
                     THEN call.buckets[General] ELSE Fallback)

\* A general topic is configured and its bucket is empty; the entries of the
\* first non-empty bucket, which is not the first configured one, came back.
C14_Witness ==
    /\ NoTopic /\ call.temas = TEMAS /\ call.limit = 40
    /\ DOMAIN call.buckets = BucketKeys
    /\ call.buckets["Ultimas"] = <<>> /\ call.buckets["Esporte"] = <<>>
    /\ call.buckets["Economia"] = <<Stored_0900, Stored_1000>>
    /\ result.value.noticias = <<PopTs(Stored_1000), PopTs(Stored_0900)>>

\* The stored entries an entry of the returned list may come from.
StoredAs(n) ==
    {e \in UNION {Range(call.buckets[k]) : k \in DOMAIN call.buckets} : PopTs(e) = n}

\* C15: for a label or none, the returned list is made of stored entries of
\* the snapshot, in descending order of their stored timestamps, and for a
\* limit >= 0 it has at most limit entries.
C15_SortedAndCapped ==
    Served =>
        LET noticias == result.value.noticias IN
        /\ \A i \in 1..Len(noticias) : StoredAs(noticias[i]) # {}
        /\ \A i, j \in 1..Len(noticias) :
                i < j => \A a \in StoredAs(noticias[i]), b \in StoredAs(noticias[j]) : a.ts >= b.ts
        /\ call.limit >= 0 => Len(noticias) <= call.limit

\* A bucket of two entries stored oldest first was asked for with the limit
\* of 1: the most recent entry came back alone.
C15_Witness ==
    /\ Served /\ call.tema_label = "Esporte" /\ call.limit = 1
    /\ "Esporte" \in DOMAIN call.buckets
    /\ call.buckets["Esporte"] = <<Stored_0900, Stored_1000>>
    /\ result.value.noticias = <<PopTs(Stored_1000)>>

\* The one entry of the feeds, and the text the filter reads of it.
TheEntry == RawIn[1]
Blob == Lower(TheEntry.title) \o <<" ">> \o Lower(entry_summary(TheEntry))
HasTerm(terms) == \E i \in DOMAIN terms : Contains(Blob, terms[i])
Kept == Len(Out) = 1
Dropped == Out = <<>>

\* C19: in the economy topic an entry is kept exactly when its lower-cased
\* title and summary contain no term of the block list and some keyword, and
\* is dropped otherwise, so that a block-list term decides before any
\* keyword ("Flamengo" with "mercado" is dropped, "Bitcoin" without a
\* block-list term is kept); in another topic the entry is kept.
C19_EconomyFilter ==
    (Collected /\ Len(RawIn) = 1 /\ entry_link(RawIn[1]) # "") =>
        /\ Kept \/ Dropped
        /\ call.tema = "Economia" => (Kept <=> (~HasTerm(_ECO_BLACKLIST) /\ HasTerm(_ECO_KEYWORDS)))
        /\ call.tema # "Economia" => Kept
        /\ (call.tema = "Economia" /\ Contains(Blob, Lower(Text_Flamengo))) => Dropped
        /\ (Contains(Blob, Lower(Text_Bitcoin)) /\ ~HasTerm(_ECO_BLACKLIST)) => Kept

\* An entry of the economy topic with "Flamengo" and "mercado" in its title
\* has been dropped.
C19_Witness ==
    /\ Collected /\ call.tema = "Economia" /\ Len(RawIn) = 1
    /\ TheEntry.title = Join(<<Text_mercado, Text_Flamengo>>)
    /\ Dropped

\* C21: a background thread whose acquire of _REFRESH_LOCK fails ends at
\* once, having built and written nothing and leaving the lock and the flag
\* as they were; it never runs again, and the thread that held the lock runs
\* no second rebuild once its own is over.
C21_DroppedNotQueued ==
    [][\A b \in BgIds :
        /\ (pc[b] = "bg_acquire" /\ refreshLock # NoThread /\ pc'[b] # "bg_acquire")
            => /\ pc'[b] = "dropped" /\ snap'[b] = EmptySnapshot
               /\ file' = file /\ tmp' = tmp
               /\ refreshLock' = refreshLock /\ refreshing' = refreshing
        /\ pc[b] = "dropped" => pc'[b] = "dropped" /\ snap'[b] = EmptySnapshot
        /\ pc[b] \in {"bg_finally", "bg_release", "rebuilt"}
            => pc'[b] \in {"bg_finally", "bg_release", "rebuilt"}
      ]_vars

\* The rebuild that was in flight has ended and released the lock; the
\* thread that was turned away has stayed where it ended.
C21_Witness ==
    \E b1, b2 \in BgIds :
        pc[b1] = "rebuilt" /\ pc[b2] = "dropped" /\ refreshLock = NoThread

Stripped == call.fn = "strip_html" /\ result.done

\* C23: what strip_html returns is returned unchanged by a second strip_html.
C23_StripHtmlIdempotent ==
    Stripped => strip_html(result.value) = result.value

\* strip_html has turned the references of a text into a tag, which a second
\* strip_html removes.
C23_Witness ==
    /\ Stripped
    /\ call.text = <<"&", "l", "t", ";", "b", "&", "g", "t", ";">>
    /\ result.value = <<"<", "b", ">">>
    /\ strip_html(result.value) = <<>>

Summarized == call.fn = "summarize" /\ result.done
TooLong == Len(strip_html(call.text)) > call.max_chars
\* The characters at which a text may be cut without cutting a word.
Boundary == {" ", ",", ";", ":"}

\* C24: of a text whose stripped form is longer than max_chars, summarize
\* returns at most max_chars characters of the stripped form, from its start,
\* and an ellipsis; the character of the stripped form that follows the
\* part returned is not a character of a word.
C24_SummarizeKeepsWords ==
    (Summarized /\ TooLong) =>
        LET t == strip_html(call.text)
            n == Len(result.value) - 1
        IN  /\ n >= 0 /\ n <= call.max_chars
            /\ result.value = SubSeq(t, 1, n) \o <<Ellipsis>>
            /\ t[n + 1] \in Boundary

\* A text whose first max_chars characters hold no blank has been cut inside
\* its first word.
C24_Witness ==
    /\ Summarized /\ call.max_chars = 5
    /\ call.text = <<"L", "e", "i", "a", "m", "a", "i", "s">>
    /\ result.value = <<"L", "e", "i", "a", "m", Ellipsis>>

SnapshotBuilt == call.fn = "_build_cache_from_feeds" /\ result.done /\ ~result.raised
Bucket(t) == result.value.buckets[t]

\* C22: every bucket of a snapshot that a rebuild produces to be persisted
\* is sorted by descending timestamp, holds no two entries with the same
\* (titulo, link), no two entries with the same link, and at most as many
\* entries as the limit configured for its topic.
C22_BucketsSortedUniqueCapped ==
    SnapshotBuilt =>
        \A t \in DOMAIN result.value.buckets :
            /\ \A i, j \in 1..Len(Bucket(t)) :
                /\ i < j => Bucket(t)[i].ts >= Bucket(t)[j].ts
                /\ i # j => <<Bucket(t)[i].titulo, Bucket(t)[i].link>>
                                # <<Bucket(t)[j].titulo, Bucket(t)[j].link>>
                /\ i # j => Bucket(t)[i].link # Bucket(t)[j].link
            /\ Len(Bucket(t)) <= BuildLimitesOf(call.padrao)[t]

\* The sport bucket of a snapshot holds two entries with the same link.
C22_Witness ==
    /\ SnapshotBuilt
    /\ Len(Bucket("Esporte")) = 2
    /\ Bucket("Esporte")[1].link = "https://a/3" /\ Bucket("Esporte")[2].link = "https://a/3"
    /\ Bucket("Esporte")[1].titulo # Bucket("Esporte")[2].titulo

\* The position of the first raw entry of the pass that bears this link.
FirstWith(link) == Min({k \in 1..Len(RawIn) : entry_link(RawIn[k]) = link})

\* C25: in every topic, an entry of the returned list is the first raw entry
\* of the pass that bears its link: an entry whose link occurred on an
\* earlier entry is dropped, whatever became of the earlier one.
C25_LaterLinkAlwaysDropped ==
    Collected =>
        \A i \in 1..Len(Out) : RawOf(Out[i]) = RawIn[FirstWith(Out[i].jc_link)]

\* In the economy topic the first feed has served an entry that the filter
\* rejects, the second feed an entry with the same link that the filter
\* admits: the second one is in the bucket.
C25_Witness ==
    /\ Collected /\ call.tema = "Economia"
    /\ call.net = Net(<<News_Tie>>, <<News_Atom>>)
    /\ Len(Out) = 1 /\ RawOf(Out[1]) = News_Atom

\* The updated_at values stamped by a rebuild: held by the thread that built
\* the snapshot, or persisted in the file.
Stamped ==
    {snap[p].updated_at : p \in {q \in Procs : Built(q)}}
    \cup (IF file.kind = "json" /\ file.data # SeedSnapshot THEN {file.data.updated_at} ELSE {})

\* C27: the age that _cache_age_seconds computes now for an updated_at that
\* _now_iso produced at second t is now - t.
C27_StampRoundTrip ==
    \A u \in Stamped : _cache_age_seconds(u, now) = now - u.secs

\* The file holds a snapshot stamped by a rebuild one second ago, and its
\* age is computed as unknown.
C27_Witness ==
    /\ file.kind = "json" /\ file.data.updated_at = _now_iso(now - 1)
    /\ _cache_age_seconds(file.data.updated_at, now) = UnknownAge

\* C28: the updated_at of the persisted snapshot never moves backwards: each
\* successful write (os.replace) of a snapshot over a readable snapshot stores
\* an updated_at that is not earlier than the one it replaces.
C28_StampNeverBackwards ==
    [][(file' # file /\ file.kind = "json" /\ file'.kind = "json")
        => file'.data.updated_at.secs >= file.data.updated_at.secs]_vars

\* C28: a rebuild stamped earlier holds _CACHE_LOCK, its dump made, and is
\* about to replace a snapshot that another rebuild stamped later.
C28_Witness ==
    \E p \in Procs :
        /\ pc[p] = "w_replace"
        /\ tmp = JsonFile(snap[p])
        /\ file.kind = "json" /\ file.data # SeedSnapshot
        /\ tmp.data.updated_at.secs < file.data.updated_at.secs

\* The threads that are inside _build_cache_from_feeds.
InBuild == {p \in Procs : pc[p] = "building"}

\* C29: no two rebuilds of any origin overlap: at most one thread at a time
\* is inside _build_cache_from_feeds.
C29_NoOverlappingRebuilds == Cardinality(InBuild) <= 1

\* C29: a background rebuild and a synchronous rebuild of a request thread
\* are inside _build_cache_from_feeds at the same time.
C29_Witness ==
    \E b \in BgIds, r \in ReqIds :
        /\ pc[b] = "building" /\ refreshLock = b /\ refreshing
        /\ pc[r] = "building"


\* C30: whenever _REFRESH_LOCK is not held _REFRESHING is False; a background
\* thread that acquired the lock releases it and the flag is reset, also when
\* the rebuild raises; and a thread that asks for the lock later is not turned
\* away for ever: the lock is free again and again.
C30_GuardReleased ==
    /\ [](refreshLock = NoThread => ~refreshing)
    /\ \A b \in BgIds : (refreshLock = b) ~> (refreshLock = NoThread /\ ~refreshing)
    /\ []<>(refreshLock = NoThread /\ ~refreshing)

\* C30: the rebuild of a background thread has raised (it left the build
\* with no snapshot) while the thread holds the lock with the flag set, and
\* another background thread has been turned away by the lock.
C30_Witness ==
    \E b1, b2 \in BgIds :
        /\ pc[b1] = "bg_finally" /\ ~Built(b1)
        /\ refreshLock = b1 /\ refreshing
        /\ pc[b2] = "dropped"

\* A page request that read a stale snapshot: it has started its background
\* thread.
ObservedStale(r) == pc[Bg(r)] # "idle"

\* The snapshot request r read has been replaced by a newer one: the thread
\* the request started has rebuilt (it stamped and wrote after the read), or
\* the persisted snapshot is another one, not stamped earlier (the clock
\* counts whole seconds).
Replaced(r) ==
    \/ pc[Bg(r)] = "rebuilt"
    \/ /\ file.kind = "json"
       /\ Pair(file.data) # first[r]
       /\ file.data.updated_at.secs >= first[r].updated_at.secs

\* The threads that have ended or have not started.
AtRest(p) == pc[p] \in {"idle", "done", "rebuilt", "dropped", "skipped"}

\* C26: when a request has read a snapshot it takes for stale, the builds
\* return and the writes succeed, then under fair scheduling a rebuild
\* completes and the persisted snapshot is replaced by a newer one.
C26_RevalidationCompletes ==
    \A r \in ReqIds : ObservedStale(r) ~> Replaced(r)

\* C26: the background thread of a request that read a stale snapshot has
\* been turned away by a thread that had written that very snapshot and was
\* about to release the lock; no other thread is under way, so nothing will
\* replace the snapshot the request read.
C26_Witness ==
    \E r \in ReqIds, b \in BgIds :
        /\ pc[Bg(r)] = "dropped" /\ IsStale(first[r], now)
        /\ refreshLock = b /\ pc[b] = "bg_release" /\ ~refreshing
        /\ file.kind = "json" /\ Pair(file.data) = first[r]
        /\ \A p \in Procs \ {b} : AtRest(p)

\* A rebuild has persisted its snapshot: the file is readable and holds an
\* updated_at as _now_iso writes it.
Persisted ==
    /\ file.kind = "json"
    /\ file.data.updated_at = _now_iso(file.data.updated_at.secs)

\* C31: once a rebuild has persisted a snapshot the file stays a persisted
\* snapshot with one bucket per topic; every get_buckets_cached call that
\* reads it finds it not cold, even with every bucket empty, and a page
\* request that read a snapshot that is not cold ends without entering the
\* rebuild itself.
C31_NeverColdAgain ==
    [][/\ Persisted => (Persisted' /\ DOMAIN file'.data.buckets = TemaSet)
       /\ \A r \in ReqIds :
            /\ (Persisted /\ pc[r] = "idle" /\ route'[r] = "page")
                => (pc'[r] = "r_decide" /\ ~IsCold(first'[r]))
            /\ (pc[r] = "r_decide" /\ ~IsCold(first[r]) /\ pc'[r] # pc[r])
                => (pc'[r] = "done" /\ ~Built(r)')]_vars

\* C31: all feeds failed, the persisted snapshot has an empty list in every
\* bucket, and a page request that read it has returned it without a rebuild.
C31_Witness ==
    \E r \in ReqIds :
        /\ Persisted
        /\ \A t \in TemaSet : file.data.buckets[t] = <<>>
        /\ route[r] = "page" /\ pc[r] = "done"
        /\ first[r] = Pair(file.data) /\ ret[r] = first[r]

====
